---- MODULE Spec2Model ----
(***************************************************************************)
(* goProbe storage engine: the block file (GPFile) with its sidecar        *)
(* header, the DB writer that appends one block per column and interval,   *)
(* and the capture/rotation hand-off.                                      *)
(***************************************************************************)
EXTENDS Integers, Sequences, FiniteSets, TLC

(***************************************************************************)
(* Bounds of the model                                                     *)
(***************************************************************************)
\* timestamps handed to WriteBlock / ReadBlock are 1..MaxTs
MaxTs == 2
\* block data are byte strings over {0,1} of at most MaxLen bytes
MaxLen == 1
\* at most MaxWrites WriteBlock calls are issued on the block file
MaxWrites == 2
\* at most MaxFaults I/O faults strike the calls on the block file
MaxFaults == 1

\* DBWriter.Write is handed timestamps of the days 0..MaxDay, the slots
\* 0..MaxSlot of a day being one write-out interval apart
MaxDay == 1
MaxSlot == 1
\* counters of a flow are 0..MaxCounter
MaxCounter == 1
\* at most MaxDBWrites DBWriter.Write calls, struck by at most MaxDBFaults
\* I/O faults
MaxDBWrites == 2
MaxDBFaults == 1

\* the packet source of an interface yields the packets 1..MaxPkts, and at
\* most MaxRotations rotate commands are issued
MaxPkts == 4
MaxRotations == 3

\* Sort is handed flow lists of at most MaxFlows entries, dbData flow maps
\* of at most MaxMapFlows flows per address family
MaxFlows == 3
MaxMapFlows == 2

\* a distributed query goes to at most MaxHosts hosts, with maxConcurrent
\* in 0..MaxConcurrent; the rows of a host have keys in 1..MaxKeys
MaxHosts == 2
MaxConcurrent == 2
MaxKeys == 2
\* the row limits handed to Prepare are 0..MaxNumResults and MaxResults
MaxNumResults == 2
\* a completed condition has at most MaxTokens tokens
MaxTokens == 10
MaxPool == 2
MaxSize == 2
MaxCallers == 2

(***************************************************************************)
(* Program constants                                                       *)
(***************************************************************************)
headerVersion == 1
ModeRead == 0
ModeWrite == 1089
EncoderTypeNull == 0
EncoderTypeLZ4 == 1
EncoderTypeZSTD == 2
\* frame magics, one token standing for the four magic bytes
LZ4Magic == 4
ZstdMagic == 5
\* delimiters of the serialised sidecar (a JSON object)
TokOpen == -1
TokClose == -2
EpochDay == 86400
DBWriteInterval == 300
ColIdxCount == 8
ColIdxAttributeCount == 4
SipColIdx == 0
DipColIdx == 1
DportColIdx == 2
ProtoColIdx == 3
BytesRcvdColIdx == 4
BytesSentColIdx == 5
PacketsRcvdColIdx == 6
PacketsSentColIdx == 7

Timestamps == 1..MaxTs
Byte == {0, 1}
EncoderTypes == {EncoderTypeNull, EncoderTypeLZ4, EncoderTypeZSTD}
AccessModes == {ModeRead, ModeWrite}

RECURSIVE SeqsUpTo(_)
SeqsUpTo(n) ==
    IF n = 0 THEN {<<>>}
    ELSE LET S == SeqsUpTo(n - 1)
         IN  S \cup {Append(s, b) : s \in {t \in S : Len(t) = n - 1}, b \in Byte}

BlockData == SeqsUpTo(MaxLen)

Min(a, b) == IF a < b THEN a ELSE b

Prefix(s, k) == SubSeq(s, 1, k)

(***************************************************************************)
(* Block codec (registry of frame compressors)                             *)
(***************************************************************************)
Compress(enc, data) ==
    IF enc = EncoderTypeLZ4 THEN <<LZ4Magic>> \o data
    ELSE IF enc = EncoderTypeZSTD THEN <<ZstdMagic>> \o data \o <<Len(data)>>
    ELSE data

\* in: the compressed bytes read from the source; rawLen: the expected
\* decoded length.  n is the number of bytes consumed from the source.
Decompress(enc, in, rawLen) ==
    LET n == Len(in) IN
    IF enc = EncoderTypeLZ4 THEN
        IF n >= 1 /\ in[1] = LZ4Magic /\ n - 1 = rawLen
        THEN [err |-> FALSE, out |-> SubSeq(in, 2, n), n |-> n]
        ELSE [err |-> TRUE, out |-> <<>>, n |-> 0]
    ELSE IF enc = EncoderTypeZSTD THEN
        IF n >= 2 /\ in[1] = ZstdMagic /\ in[n] = rawLen /\ n - 2 = rawLen
        THEN [err |-> FALSE, out |-> SubSeq(in, 2, n - 1), n |-> n]
        ELSE [err |-> TRUE, out |-> <<>>, n |-> 0]
    ELSE
        IF n = rawLen
        THEN [err |-> FALSE, out |-> in, n |-> n]
        ELSE [err |-> TRUE, out |-> <<>>, n |-> 0]

(***************************************************************************)
(* storage.Block / storage.BlockHeader and the sidecar serialisation       *)
(***************************************************************************)
Block(off, len, raw, enc) ==
    [Offset |-> off, Len |-> len, RawLen |-> raw, EncoderType |-> enc]

NoBlocks == [t \in {} |-> Block(0, 0, 0, 0)]

BlockHeader(version, off, blocks) ==
    [Version |-> version, CurrentOffset |-> off, Blocks |-> blocks]

ZeroHeader == BlockHeader(0, 0, NoBlocks)

SetBlock(blocks, ts, b) ==
    [t \in (DOMAIN blocks) \cup {ts} |-> IF t = ts THEN b ELSE blocks[t]]

RECURSIVE MarshalBlocks(_, _)
MarshalBlocks(blocks, todo) ==
    IF todo = {} THEN <<>>
    ELSE LET t == CHOOSE x \in todo : \A y \in todo : x <= y
             b == blocks[t]
         IN  <<t, b.Offset, b.Len, b.RawLen, b.EncoderType>>
                 \o MarshalBlocks(blocks, todo \ {t})

\* jsoniter.Marshal(&g.header)
Marshal(h) ==
    <<TokOpen, h.Version, h.CurrentOffset>>
        \o MarshalBlocks(h.Blocks, DOMAIN h.Blocks) \o <<TokClose>>

WellFormed(toks) ==
    /\ Len(toks) >= 4
    /\ toks[1] = TokOpen
    /\ toks[Len(toks)] = TokClose
    /\ (Len(toks) - 4) % 5 = 0

\* jsoniter.Unmarshal(gpfHeaderData, &g.header); only for WellFormed(toks)
Unmarshal(toks) ==
    LET nb  == (Len(toks) - 4) \div 5
        at(k) == 4 + 5 * (k - 1)
        tss == {toks[at(k)] : k \in 1..nb}
        idx(t) == CHOOSE k \in 1..nb : toks[at(k)] = t
    IN  BlockHeader(toks[2], toks[3],
            [t \in tss |-> Block(toks[at(idx(t)) + 1], toks[at(idx(t)) + 2],
                                 toks[at(idx(t)) + 3], toks[at(idx(t)) + 4])])

(***************************************************************************)
(* State                                                                   *)
(***************************************************************************)
VARIABLES
    dataFile,   \* the .gpf data file: [exists, content]
    metaFile,   \* the .gpf.meta sidecar: [exists, content]
    g,          \* the GPFile object (live = FALSE: none constructed)
    ret,        \* what the last call returned
    hist,       \* history of the block file (ghost)
    db,         \* the interface's DB directory: per day, the column files
                \* with their sidecars and meta.json
    dbw,        \* the DBWriter
    wret,       \* what the last DBWriter call returned
    whist,      \* history of the DB directory (ghost)
    capture,    \* the Capture of one interface
    handed,     \* the flow maps handed to the writer, in order
    observed,   \* per observed packet, the rotations accepted before (ghost)
    calc,       \* the last call of a function on the write path: what it
                \* was handed and what it returned
    dq,         \* the distributed query: producer, workers, channels,
                \* aggregator
    condition,  \* the tokens of the condition under completion
    mp          \* the memory pool, the buffers its callers hold and the
                \* MemFiles drawn from it

gpfVars == <<dataFile, metaFile, g, ret, hist>>
dbVars == <<db, dbw, wret, whist>>
capVars == <<capture, handed, observed>>

vars ==
    <<dataFile, metaFile, g, ret, hist, db, dbw, wret, whist,
      capture, handed, observed, calc, dq, condition, mp>>

NoFile == [exists |-> FALSE, content |-> <<>>]

NoHandle ==
    [live |-> FALSE, accessMode |-> ModeRead, file |-> FALSE, pos |-> 0,
     header |-> ZeroHeader, lastSeekPos |-> 0,
     defaultEncoderType |-> EncoderTypeLZ4, defaultEncoder |-> EncoderTypeLZ4]

NoRet ==
    [op |-> "none", ts |-> 0, err |-> FALSE, data |-> <<>>,
     fault |-> "none", start |-> 0]

Ret(op, ts, err, data, fault, start) ==
    [op |-> op, ts |-> ts, err |-> err, data |-> data,
     fault |-> fault, start |-> start]

\* writes: number of WriteBlock calls; nfaults: number of I/O faults; faults: the I/O faults that struck a
\* write-mode call; rdFault: an I/O fault struck the current handle's reads;
\* dupTs: a timestamp was written twice; wrote: bytes of the successful
\* WriteBlock per timestamp; appends: <<ts, start, len>> of the payloads
\* completely appended to the data file, start being the position they
\* physically start at; orphaned: a WriteBlock failed after its append
InitHist ==
    [writes |-> 0, nfaults |-> 0, faults |-> {}, rdFault |-> FALSE, dupTs |-> FALSE,
     wrote |-> [t \in {} |-> <<>>], appends |-> {}, orphaned |-> FALSE]


(***************************************************************************)
(* GPFile                                                                  *)
(***************************************************************************)
\* I/O faults that may strike WriteBlock / ReadBlock / New
WriteFaults ==
    {"none", "open", "compress0", "compressPart", "sync",
     "hdrOpen", "hdrTrunc", "hdrPart"}
ReadFaults == {"none", "open", "seek", "read"}
NewFaults == {"none", "io"}

\* (mutant) without a sidecar a read-mode file gets a new header, too
readHeader_NoModeCheck(mf, accessMode, fault) ==
    IF fault = "io" THEN [err |-> TRUE, header |-> ZeroHeader]
    ELSE IF mf.exists THEN
        IF WellFormed(mf.content)
        THEN [err |-> FALSE, header |-> Unmarshal(mf.content)]
        ELSE [err |-> TRUE, header |-> ZeroHeader]
    ELSE [err |-> FALSE, header |-> BlockHeader(headerVersion, 0, NoBlocks)]

\* GPFile.readHeader: the sidecar decides the header of a new GPFile
readHeader(mf, accessMode, fault) ==
    IF fault = "io" THEN [err |-> TRUE, header |-> ZeroHeader]
    ELSE IF mf.exists THEN
        IF WellFormed(mf.content)
        THEN [err |-> FALSE, header |-> Unmarshal(mf.content)]
        ELSE [err |-> TRUE, header |-> ZeroHeader]
    ELSE IF accessMode = ModeRead THEN [err |-> TRUE, header |-> ZeroHeader]
    ELSE [err |-> FALSE, header |-> BlockHeader(headerVersion, 0, NoBlocks)]

\* gpfile.New(filename, accessMode, WithEncoder(enc))
New(mf, accessMode, enc, fault) ==
    LET h == readHeader(mf, accessMode, fault) IN
    IF h.err THEN [err |-> TRUE, g |-> NoHandle]
    ELSE [err |-> FALSE,
          g |-> [live |-> TRUE, accessMode |-> accessMode, file |-> FALSE,
                 pos |-> 0, header |-> h.header, lastSeekPos |-> 0,
                 defaultEncoderType |-> enc, defaultEncoder |-> enc]]

\* GPFile.writeHeader: ioutil.WriteFile(gpfHeaderFile, gpfHeaderData, perm)
\* opens the sidecar with O_TRUNC and writes the serialised header into it
writeHeader(h, mf, fault) ==
    LET toks == Marshal(h) IN
    IF fault = "hdrOpen" THEN [err |-> TRUE, metaFile |-> mf]
    ELSE IF fault = "hdrTrunc"
        THEN [err |-> TRUE, metaFile |-> [exists |-> TRUE, content |-> <<>>]]
    ELSE IF fault = "hdrPart"
        THEN [err |-> TRUE,
              metaFile |-> [exists |-> TRUE,
                            content |-> Prefix(toks, Len(toks) - 1)]]
    ELSE [err |-> FALSE, metaFile |-> [exists |-> TRUE, content |-> toks]]

\* (mutant) WriteBlock does not check the access mode
WriteModeOK_Any(gp) == TRUE

\* the access mode checks that open ReadBlock and WriteBlock
ReadModeOK(gp) == gp.accessMode = ModeRead
WriteModeOK(gp) == gp.accessMode = ModeWrite

\* (mutant) the block is recorded at the start of the file
RecordedBlock_ZeroOffset(gp, n, raw) == Block(0, n, raw, gp.defaultEncoderType)

\* the block WriteBlock records for n compressed bytes of raw bytes
RecordedBlock(gp, n, raw) ==
    Block(gp.header.CurrentOffset, n, raw, gp.defaultEncoderType)

\* (mutant) ReadBlock never seeks
NeedSeek_Never(gp, block) == FALSE

\* "if the file is read continuously, do not seek"
NeedSeek(gp, block) == block.Offset # gp.lastSeekPos

WResult(gp, df, mf, err, fault, start, appended) ==
    [g |-> gp, dataFile |-> df, metaFile |-> mf, err |-> err,
     fault |-> fault, start |-> start, appended |-> appended]

\* GPFile.WriteBlock(timestamp, blockData)
WriteBlock(gp, df, mf, ts, blockData, fault) ==
    IF ~WriteModeOK(gp) THEN WResult(gp, df, mf, TRUE, "none", 0, FALSE)
    ELSE IF Len(blockData) = 0 THEN
        LET g1 == [gp EXCEPT !.header.Blocks =
                       SetBlock(@, ts, RecordedBlock(gp, 0, 0))]
            w  == writeHeader(g1.header, mf, fault)
        IN  WResult(g1, df, w.metaFile, w.err,
                    IF w.err THEN fault ELSE "none", 0, FALSE)
    ELSE IF ~gp.file /\ fault = "open"
        THEN WResult(gp, df, mf, TRUE, fault, 0, FALSE)
    ELSE
        LET g1    == [gp EXCEPT !.file = TRUE]
            comp  == Compress(gp.defaultEncoder, blockData)
            start == Len(df.content)
            cut   == IF fault = "compress0" THEN 0 ELSE Len(comp) - 1
            part  == [exists |-> TRUE,
                      content |-> df.content \o Prefix(comp, cut)]
            full  == [exists |-> TRUE, content |-> df.content \o comp]
        IN  IF fault \in {"compress0", "compressPart"}
                THEN WResult(g1, part, mf, TRUE, fault, start, FALSE)
            ELSE IF fault = "sync"
                THEN WResult(g1, full, mf, TRUE, fault, start, TRUE)
            ELSE
                LET g2 == [g1 EXCEPT
                            !.header.Blocks = SetBlock(@, ts,
                                RecordedBlock(gp, Len(comp), Len(blockData))),
                            !.header.CurrentOffset = @ + Len(comp)]
                    w  == writeHeader(g2.header, mf, fault)
                IN  WResult(g2, full, w.metaFile, w.err,
                            IF w.err THEN fault ELSE "none", start, TRUE)

RResult(gp, err, data, fault) ==
    [g |-> gp, err |-> err, data |-> data, fault |-> fault]

\* GPFile.ReadBlock(timestamp)
ReadBlock(gp, df, ts, fault) ==
    IF ~ReadModeOK(gp) THEN RResult(gp, TRUE, <<>>, "none")
    ELSE IF ts \notin DOMAIN gp.header.Blocks
        THEN RResult(gp, TRUE, <<>>, "none")
    ELSE LET block == gp.header.Blocks[ts] IN
    IF block.RawLen = 0 THEN RResult(gp, FALSE, <<>>, "none")
    ELSE IF ~gp.file /\ (fault = "open" \/ ~df.exists)
        THEN RResult(gp, TRUE, <<>>, IF fault = "open" THEN fault ELSE "none")
    ELSE
        LET g1 == [gp EXCEPT !.file = TRUE,
                             !.defaultEncoder = block.EncoderType]
        IN  IF NeedSeek(g1, block) /\ fault = "seek"
                \* g.lastSeekPos, err = g.file.Seek(..): 0 with the error
                THEN RResult([g1 EXCEPT !.lastSeekPos = 0], TRUE, <<>>, fault)
            ELSE
                LET g2  == IF NeedSeek(g1, block)
                           THEN [g1 EXCEPT !.lastSeekPos = block.Offset,
                                           !.pos = block.Offset]
                           ELSE g1
                    end == Min(g2.pos + block.Len, Len(df.content))
                    in  == SubSeq(df.content, g2.pos + 1, end)
                    dec == Decompress(g2.defaultEncoder, in, block.RawLen)
                    g3  == [g2 EXCEPT !.pos = g2.pos + Len(in)]
                IN  IF fault = "read" THEN RResult(g2, TRUE, <<>>, fault)
                    ELSE IF Len(in) # block.Len \/ dec.err
                        THEN RResult(g3, TRUE, <<>>, "none")
                    ELSE IF dec.n # block.Len
                        THEN RResult(g3, TRUE, <<>>, "none")
                    ELSE RResult([g3 EXCEPT !.lastSeekPos = @ + dec.n],
                                 FALSE, dec.out, "none")

(***************************************************************************)
(* The block file under any sequence of New / WriteBlock / ReadBlock /     *)
(* Close calls and I/O faults                                              *)
(***************************************************************************)
FaultAllowed(fault) == fault = "none" \/ hist.nfaults < MaxFaults

GPNew(accessMode, enc, fault) ==
    /\ ~g.live
    /\ FaultAllowed(fault)
    /\ \E r \in {New(metaFile, accessMode, enc, fault)} :
        /\ g' = r.g
        /\ ret' = Ret("New", 0, r.err, <<>>, fault, 0)
    /\ hist' = [hist EXCEPT !.rdFault = FALSE,
                            !.nfaults = IF fault = "none" THEN @ ELSE @ + 1]
    /\ UNCHANGED <<dataFile, metaFile, dbVars, capVars, calc, dq, condition, mp>>

GPWriteBlock(ts, blockData, fault) ==
    /\ g.live
    /\ hist.writes < MaxWrites
    /\ FaultAllowed(fault)
    /\ \E r \in {WriteBlock(g, dataFile, metaFile, ts, blockData, fault)} :
        /\ g' = r.g
        /\ dataFile' = r.dataFile
        /\ metaFile' = r.metaFile
        /\ ret' = Ret("WriteBlock", ts, r.err, blockData, r.fault, r.start)
        /\ hist' = [hist EXCEPT
              !.writes = @ + 1,
              !.nfaults = IF fault = "none" THEN @ ELSE @ + 1,
              !.faults = IF r.fault = "none" THEN @ ELSE @ \cup {r.fault},
              !.dupTs = @ \/ (WriteModeOK(g) /\ ts \in DOMAIN g.header.Blocks),
              !.wrote = IF ~r.err
                        THEN [t \in (DOMAIN @) \cup {ts} |->
                                 IF t = ts THEN blockData ELSE @[t]]
                        ELSE @,
              !.appends = IF r.appended
                          THEN @ \cup {<<ts, r.start,
                                         Len(r.dataFile.content) - r.start>>}
                          ELSE @,
              !.orphaned = @ \/ (r.appended /\ r.err)]
    /\ UNCHANGED <<dbVars, capVars, calc, dq, condition, mp>>

GPReadBlock(ts, fault) ==
    /\ g.live
    /\ FaultAllowed(fault)
    /\ \E r \in {ReadBlock(g, dataFile, ts, fault)} :
        /\ g' = r.g
        /\ ret' = Ret("ReadBlock", ts, r.err, r.data, r.fault, 0)
        /\ hist' = [hist EXCEPT !.rdFault = @ \/ r.fault # "none",
                                !.nfaults = IF fault = "none" THEN @ ELSE @ + 1]
    /\ UNCHANGED <<dataFile, metaFile, dbVars, capVars, calc, dq, condition, mp>>

\* GPFile.Close
GPClose ==
    /\ g.live
    /\ g' = NoHandle
    /\ ret' = Ret("Close", 0, FALSE, <<>>, "none", 0)
    /\ UNCHANGED <<dataFile, metaFile, hist, dbVars, capVars, calc, dq, condition, mp>>

\* BlockHeader.OrderedList: the timestamps of the blocks in ascending order
RECURSIVE OrderedList(_, _)
OrderedList(blocks, todo) ==
    IF todo = {} THEN <<>>
    ELSE LET t == CHOOSE x \in todo : \A y \in todo : x <= y
         IN  <<t>> \o OrderedList(blocks, todo \ {t})

\* the loop of PrintMetaTable over the ordered blocks: file.ReadAt(b,
\* curOffset) fails at the end of the file; the four bytes read are the
\* token at curOffset; attn: the timestamps of the rows marked as
\* mismatching
RECURSIVE printRows(_, _, _, _)
printRows(blocks, list, content, curOffset) ==
    IF list = <<>> THEN [err |-> FALSE, attn |-> <<>>]
    ELSE IF curOffset >= Len(content) THEN [err |-> TRUE, attn |-> <<>>]
    ELSE LET block == blocks[Head(list)]
             rest == printRows(blocks, Tail(list), content,
                               curOffset + block.Len)
             mark == IF block.EncoderType = EncoderTypeLZ4
                            /\ content[curOffset + 1] # LZ4Magic
                     THEN <<Head(list)>> ELSE <<>>
         IN  [err |-> rest.err, attn |-> mark \o rest.attn]

\* PrintMetaTable(gpf, w): the data file is opened for reading, the blocks
\* are those of gpf.Blocks()
PrintMetaTable(gpf, file) ==
    IF ~file.exists THEN [err |-> TRUE, attn |-> <<>>]
    ELSE printRows(gpf.header.Blocks,
                   OrderedList(gpf.header.Blocks, DOMAIN gpf.header.Blocks),
                   file.content, 0)

\* analyze-meta: PrintMetaTable on a GPFile opened for reading
GPPrintMetaTable ==
    /\ g.live
    /\ g.accessMode = ModeRead
    /\ \E r \in {PrintMetaTable(g, dataFile)} :
          ret' = Ret("PrintMetaTable", 0, r.err, r.attn, "none", 0)
    /\ UNCHANGED <<dataFile, metaFile, g, hist, dbVars, capVars, calc, dq, condition, mp>>

GPNext ==
    \/ \E m \in AccessModes, e \in EncoderTypes, f \in NewFaults :
           GPNew(m, e, f)
    \/ \E ts \in Timestamps, d \in BlockData, f \in WriteFaults :
           GPWriteBlock(ts, d, f)
    \/ \E ts \in Timestamps, f \in ReadFaults : GPReadBlock(ts, f)
    \/ GPClose

(***************************************************************************)
(* DB writer                                                               *)
(***************************************************************************)
Columns == 0..(ColIdxCount - 1)
Days == {d * EpochDay : d \in 0..MaxDay}
DBTimestamps ==
    {d * EpochDay + k * DBWriteInterval : d \in 0..MaxDay, k \in 0..MaxSlot}

\* Go's integer division truncates toward zero
GoDiv(a, b) == IF a >= 0 THEN a \div b ELSE -((-a) \div b)

\* DayTimestamp returns timestamp rounded down to the nearest day
DayTimestamp(timestamp) == GoDiv(timestamp, EpochDay) * EpochDay

\* flows: key (sip, dip, dport, proto) and the four counters
V4Flow(a, c) ==
    [v4 |-> TRUE, sip |-> <<10, 0, 0, a>>, dip |-> <<10, 0, 0, 9>>,
     dport |-> <<0, 80>>, proto |-> 6,
     NBytesRcvd |-> c, NBytesSent |-> 0, NPktsRcvd |-> c, NPktsSent |-> 0]
V6Flow(a, c) ==
    [v4 |-> FALSE,
     sip |-> <<a, 0, 0, 0, 0, 0, 0, 0, 0, 0, 0, 0, 0, 0, 0, 1>>,
     dip |-> <<32, 1, 0, 0, 0, 0, 0, 0, 0, 0, 0, 0, 0, 0, 0, 9>>,
     dport |-> <<1, 187>>, proto |-> 17,
     NBytesRcvd |-> c, NBytesSent |-> 1, NPktsRcvd |-> c, NPktsSent |-> 1]

\* the flattened flow maps handed to Write: the IPv4 and the IPv6 table
FlowMap(v4List, v6List) == [v4 |-> v4List, v6 |-> v6List]
FlowLists ==
    {FlowMap(<<>>, <<>>)}
        \cup {FlowMap(<<V4Flow(1, c)>>, <<>>) : c \in 0..MaxCounter}
        \cup {FlowMap(<<V4Flow(1, MaxCounter)>>, <<V6Flow(32, MaxCounter)>>)}

\* bytes.Compare: -1, 0 or 1 as a sorts before, with or after b
RECURSIVE BytesCompare(_, _)
BytesCompare(a, b) ==
    IF a = <<>> /\ b = <<>> THEN 0
    ELSE IF a = <<>> THEN -1
    ELSE IF b = <<>> THEN 1
    ELSE IF a[1] < b[1] THEN -1
    ELSE IF a[1] > b[1] THEN 1
    ELSE BytesCompare(Tail(a), Tail(b))

\* (mutant) the protocol byte is compared as a signed byte
Less_SignedProto(iv, jv) ==
    LET signed(x) == IF x >= 128 THEN x - 256 ELSE x IN
    IF BytesCompare(iv.sip, jv.sip) # 0 THEN BytesCompare(iv.sip, jv.sip) < 0
    ELSE IF BytesCompare(iv.dip, jv.dip) # 0
        THEN BytesCompare(iv.dip, jv.dip) < 0
    ELSE IF BytesCompare(iv.dport, jv.dport) # 0
        THEN BytesCompare(iv.dport, jv.dport) < 0
    ELSE IF iv.proto # jv.proto THEN signed(iv.proto) < signed(jv.proto)
    ELSE FALSE

\* the less function AggFlowList.Sort hands to sort.Slice
Less(iv, jv) ==
    IF BytesCompare(iv.sip, jv.sip) # 0 THEN BytesCompare(iv.sip, jv.sip) < 0
    ELSE IF BytesCompare(iv.dip, jv.dip) # 0
        THEN BytesCompare(iv.dip, jv.dip) < 0
    ELSE IF BytesCompare(iv.dport, jv.dport) # 0
        THEN BytesCompare(iv.dport, jv.dport) < 0
    ELSE IF iv.proto # jv.proto THEN iv.proto < jv.proto
    ELSE FALSE

\* sort.Slice on a short slice is an insertion sort: the entry at j moves
\* down while it is less than the entry before it
RECURSIVE insertionSortLessFunc(_, _, _)
insertionSortLessFunc(l, i, j) ==
    IF i > Len(l) THEN l
    ELSE IF j > 1 /\ Less(l[j], l[j - 1])
        THEN insertionSortLessFunc(
                 [l EXCEPT ![j] = l[j - 1], ![j - 1] = l[j]], i, j - 1)
    ELSE insertionSortLessFunc(l, i + 1, i + 1)

\* AggFlowList.Sort
Sort(l) == insertionSortLessFunc(l, 2, 2)

RECURSIVE Concat(_, _)
Concat(list, field) ==
    IF list = <<>> THEN <<>>
    ELSE list[1][field] \o Concat(Tail(list), field)

\* (mutant) the values are taken from the last flow to the first
Column_Reversed(list, field) ==
    [k \in 1..Len(list) |-> list[Len(list) + 1 - k][field]]

Column(list, field) == [k \in 1..Len(list) |-> list[k][field]]

RECURSIVE SumSeq(_)
SumSeq(xs) == IF xs = <<>> THEN 0 ELSE xs[1] + SumSeq(Tail(xs))

RECURSIVE MaxSeq(_)
MaxSeq(xs) ==
    IF xs = <<>> THEN 0
    ELSE LET m == MaxSeq(Tail(xs)) IN IF xs[1] > m THEN xs[1] ELSE m

\* bitpack.Pack: width byte, 4-byte little-endian count, count*width bytes
Pack(xs) ==
    LET width == IF MaxSeq(xs) = 0 THEN 0 ELSE 1
    IN  <<width, Len(xs), 0, 0, 0>> \o (IF width = 0 THEN <<>> ELSE xs)

\* the w low bytes of n, most significant byte first
RECURSIVE BigEndian(_, _)
BigEndian(n, w) ==
    IF w = 0 THEN <<>> ELSE Append(BigEndian(n \div 256, w - 1), n % 256)

\* (mutant) least significant byte first
PutUint64_LittleEndian(n) ==
    [k \in 1..8 |-> BigEndian(n, 8)[9 - k]]

\* binary.BigEndian.PutUint64
PutUint64(n) == BigEndian(n, 8)

\* dbData, from the flattened flow map (the lists Flatten returns)
dbData(v4Flat, v6Flat) ==
    LET v4List == Sort(v4Flat)
        v6List == Sort(v6Flat)
        all == v4List \o v6List
        v4Len == PutUint64(Len(v4List))
    IN  [cols |->
            [i \in Columns |->
                CASE i = SipColIdx -> Concat(all, "sip")
                  [] i = DipColIdx -> Concat(all, "dip")
                  [] i = DportColIdx -> Concat(all, "dport")
                  [] i = ProtoColIdx -> Column(all, "proto")
                  [] i = BytesRcvdColIdx ->
                         v4Len \o Pack(Column(all, "NBytesRcvd"))
                  [] i = BytesSentColIdx -> Pack(Column(all, "NBytesSent"))
                  [] i = PacketsRcvdColIdx -> Pack(Column(all, "NPktsRcvd"))
                  [] OTHER -> Pack(Column(all, "NPktsSent"))],
         FlowCount |-> Len(all),
         Traffic |-> SumSeq(Column(all, "NBytesRcvd"))
                       + SumSeq(Column(all, "NBytesSent"))]

BlockMetadata(ts, flowCount, traffic) ==
    [Timestamp |-> ts, FlowCount |-> flowCount, Traffic |-> traffic]

NoColumn == [data |-> NoFile, meta |-> NoFile]
NoDay == [cols |-> [i \in Columns |-> NoColumn],
          metaJson |-> [exists |-> FALSE, blocks |-> <<>>]]

\* NewDBWriter(dbpath, iface, encoderType)
NewDBWriter(enc) ==
    [dayTimestamp |-> 0, encoderType |-> enc,
     metadata |-> [nil |-> FALSE, Blocks |-> <<>>]]

\* FlowCount and Traffic of the BlockMetadata the caller hands to Write
CallerCounts == {9}

\* faults of one Write call: where it strikes and how
NoFault == [at |-> -1, kind |-> "none"]
ColumnFaults == {"io", "compressPart", "sync", "hdrOpen", "hdrTrunc"}
DBFaults ==
    {NoFault, [at |-> -1, kind |-> "mkdir"], [at |-> -1, kind |-> "querylog"],
     [at |-> ColIdxCount, kind |-> "meta"]}
        \cup {[at |-> i, kind |-> k] : i \in Columns, k \in ColumnFaults}

\* DBWriter.writeBlock: a new GPFile in write mode for every block
writeBlock(writer, col, timestamp, data, fault) ==
    LET n == New(col.meta, ModeWrite, writer.encoderType,
                 IF fault = "io" THEN "io" ELSE "none")
    IN  IF n.err THEN [err |-> TRUE, col |-> col]
        ELSE LET r == WriteBlock(n.g, col.data, col.meta, timestamp, data,
                                 IF fault = "io" THEN "none" ELSE fault)
             IN  [err |-> r.err,
                  col |-> [data |-> r.dataFile, meta |-> r.metaFile]]

\* (mutant) the loop goes on after a failed column and reports no error
RECURSIVE writeColumns_IgnoreErr(_, _, _, _, _, _)
writeColumns_IgnoreErr(writer, cols, timestamp, dbdata, fault, i) ==
    IF i = ColIdxCount THEN [err |-> FALSE, cols |-> cols]
    ELSE LET r == writeBlock(writer, cols[i], timestamp, dbdata[i],
                             IF fault.at = i THEN fault.kind ELSE "none")
         IN  writeColumns_IgnoreErr(writer, [cols EXCEPT ![i] = r.col],
                                    timestamp, dbdata, fault, i + 1)

\* (mutant) the loop stops one column early
RECURSIVE writeColumns_SkipLast(_, _, _, _, _, _)
writeColumns_SkipLast(writer, cols, timestamp, dbdata, fault, i) ==
    IF i >= ColIdxCount - 1 THEN [err |-> FALSE, cols |-> cols]
    ELSE LET r == writeBlock(writer, cols[i], timestamp, dbdata[i],
                             IF fault.at = i THEN fault.kind ELSE "none")
             c1 == [cols EXCEPT ![i] = r.col]
         IN  IF r.err THEN [err |-> TRUE, cols |-> c1]
             ELSE writeColumns_SkipLast(writer, c1, timestamp, dbdata, fault,
                                        i + 1)

\* the loop of DBWriter.Write over the columns i..ColIdxCount-1
RECURSIVE writeColumns(_, _, _, _, _, _)
writeColumns(writer, cols, timestamp, dbdata, fault, i) ==
    IF i = ColIdxCount THEN [err |-> FALSE, cols |-> cols]
    ELSE LET r == writeBlock(writer, cols[i], timestamp, dbdata[i],
                             IF fault.at = i THEN fault.kind ELSE "none")
             c1 == [cols EXCEPT ![i] = r.col]
         IN  IF r.err THEN [err |-> TRUE, cols |-> c1]
             ELSE writeColumns(writer, c1, timestamp, dbdata, fault, i + 1)

\* TryReadMetadata(path): the metadata of the file, a new one without it
TryReadMetadata(mj) ==
    IF mj.exists THEN [nil |-> FALSE, Blocks |-> mj.blocks]
    ELSE [nil |-> FALSE, Blocks |-> <<>>]

\* DBWriter.writeMetadata
writeMetadata(writer, mj, timestamp, meta, fault) ==
    LET w1 == IF writer.dayTimestamp # DayTimestamp(timestamp)
              THEN [writer EXCEPT !.metadata = [nil |-> TRUE, Blocks |-> <<>>],
                                  !.dayTimestamp = DayTimestamp(timestamp)]
              ELSE writer
        w2 == IF w1.metadata.nil
              THEN [w1 EXCEPT !.metadata = TryReadMetadata(mj)]
              ELSE w1
        w3 == [w2 EXCEPT !.metadata.Blocks = Append(@, meta)]
    IN  IF fault.kind = "meta"
        THEN [err |-> TRUE, w |-> w3, metaJson |-> mj]
        ELSE [err |-> FALSE, w |-> w3,
              metaJson |-> [exists |-> TRUE, blocks |-> w3.metadata.Blocks]]

\* (mutant) the metadata keeps the counts of the caller
setCounts_Keep(meta, update) == meta

\* meta.FlowCount = update.FlowCount; meta.Traffic = update.Traffic
setCounts(meta, update) ==
    [meta EXCEPT !.FlowCount = update.FlowCount, !.Traffic = update.Traffic]

\* DBWriter.Write(flowmap, meta, timestamp)
Write(writer, day, flows, meta, timestamp, fault) ==
    IF fault.kind \in {"mkdir", "querylog"}
    THEN [err |-> TRUE, w |-> writer, day |-> day, stage |-> "pre"]
    ELSE
        LET d == dbData(flows.v4, flows.v6)
            c == writeColumns(writer, day.cols, timestamp, d.cols, fault, 0)
        IN  IF c.err
            THEN [err |-> TRUE, w |-> writer,
                  day |-> [day EXCEPT !.cols = c.cols], stage |-> "cols"]
            ELSE
                LET m == writeMetadata(writer, day.metaJson, timestamp,
                             setCounts(meta, d), fault)
                IN  [err |-> m.err, w |-> m.w,
                     day |-> [cols |-> c.cols, metaJson |-> m.metaJson],
                     stage |-> IF m.err THEN "meta" ELSE "done"]

\* whist: writes/nfaults count the calls and faults; colFail: a fault
\* struck a Write while it wrote the columns; colsOK: timestamps of the Write
\* calls that no fault kept from writing all eight columns
InitWHist ==
    [writes |-> 0, nfaults |-> 0, colFail |-> FALSE, colsOK |-> {}]

\* stage: how far the call got ("pre", "cols", "meta", "done"); struck: an
\* I/O fault struck the call while it wrote a column; nflows, traffic: the
\* flows of the map handed to the call and their bytes
NoWRet ==
    [op |-> "none", ts |-> 0, err |-> FALSE, stage |-> "done",
     struck |-> FALSE, nflows |-> 0, traffic |-> 0]

\* the bytes of a flow list, received and sent
RECURSIVE TrafficOf(_)
TrafficOf(list) ==
    IF list = <<>> THEN 0
    ELSE list[1].NBytesRcvd + list[1].NBytesSent + TrafficOf(Tail(list))

\* the fault strikes a column write of the call: a data fault needs data
StrikesColumn(fault, flows) ==
    /\ fault.at \in Columns
    /\ \/ fault.kind \in {"io", "hdrOpen", "hdrTrunc"}
       \/ dbData(flows.v4, flows.v6).cols[fault.at] # <<>>

\* the DB directory before the first write
NoDB == [d \in Days |-> NoDay]

\* the capture process (re)starts its writer, with the configured encoder
DBNewWriter ==
    /\ dbw' = NewDBWriter(dbw.encoderType)
    /\ wret' = [op |-> "NewDBWriter", ts |-> 0, err |-> FALSE,
                stage |-> "done", struck |-> FALSE,
                nflows |-> 0, traffic |-> 0]
    /\ UNCHANGED <<db, whist, gpfVars, capVars, calc, dq, condition, mp>>

DBWrite(flows, callerMeta, timestamp, fault) ==
    /\ whist.writes < MaxDBWrites
    /\ fault = NoFault \/ whist.nfaults < MaxDBFaults
    /\ \E day \in {DayTimestamp(timestamp)} :
       \E r \in {Write(dbw, db[day], flows,
                       BlockMetadata(timestamp, callerMeta, callerMeta),
                       timestamp, fault)} :
        /\ db' = [db EXCEPT ![day] = r.day]
        /\ dbw' = r.w
        /\ wret' = [op |-> "Write", ts |-> timestamp, err |-> r.err,
                    stage |-> r.stage,
                    struck |-> StrikesColumn(fault, flows),
                    nflows |-> Len(flows.v4) + Len(flows.v6),
                    traffic |-> TrafficOf(flows.v4) + TrafficOf(flows.v6)]
        /\ whist' = [whist EXCEPT
              !.writes = @ + 1,
              !.nfaults = IF fault = NoFault THEN @ ELSE @ + 1,
              !.colFail = @ \/ StrikesColumn(fault, flows),
              !.colsOK = IF ~StrikesColumn(fault, flows)
                            /\ fault.kind \notin {"mkdir", "querylog"}
                         THEN @ \cup {timestamp} ELSE @]
    /\ UNCHANGED <<gpfVars, capVars, calc, dq, condition, mp>>

DBNext ==
    \/ DBNewWriter
    \/ \E fl \in FlowLists, cm \in CallerCounts, ts \in DBTimestamps,
          f \in DBFaults : DBWrite(fl, cm, ts, f)

(***************************************************************************)
(* Capture / rotation coordinator of one interface                         *)
(***************************************************************************)
\* newMockCapture: an unbuffered command channel without a command, a new
\* (empty) flow log, and no packet in hand.  avail: the packets added to the
\* source so far; noDrain: the source is a full ring buffer that is not
\* drained and yields packets without end; closed: the source is closed
newMockCapture ==
    [cmdChan |-> "none", flowLog |-> <<>>, pc |-> "loop", pkt |-> 0,
     state |-> "active", next |-> 1, rotations |-> 0,
     avail |-> 0, noDrain |-> FALSE, closed |-> FALSE]

NoneObserved == [p \in {} |-> 0]

\* (mutant) the captured map is handed over, the live map is not replaced
rotate_KeepLive(c, maps) ==
    [capture |-> [c EXCEPT !.state = "rotating", !.cmdChan = "none"],
     handed |-> Append(maps, c.flowLog)]

\* the rotate protocol: the live flow map is replaced by a new empty one
\* and the captured map is handed to the writer
rotate(c, maps) ==
    [capture |-> [c EXCEPT !.flowLog = <<>>, !.state = "rotating",
                           !.cmdChan = "none"],
     handed |-> Append(maps, c.flowLog)]

\* a command is on the channel and the coordinator can take it
CommandReady(c) == c.cmdChan = "rotate" /\ c.state = "active"

\* (mutant) the loop takes a packet whenever there is one
PacketReady_NoPriority(c) ==
    /\ ~c.closed
    /\ c.noDrain \/ c.next <= c.avail

\* the loop turns to the source when no command is to be taken, and the
\* source has a packet
PacketReady(c) ==
    /\ ~c.closed
    /\ ~CommandReady(c)
    /\ c.noDrain \/ c.next <= c.avail

\* mockSrc.AddPacket: the test adds a packet to the source
CapSrcAddPacket ==
    /\ ~capture.closed /\ ~capture.noDrain
    /\ capture.avail < MaxPkts
    /\ capture' = [capture EXCEPT !.avail = @ + 1]
    /\ UNCHANGED <<handed, observed, gpfVars, dbVars, calc, dq, condition, mp>>

\* mockSrc.RunNoDrain on the filled ring buffer
CapSrcRunNoDrain ==
    /\ ~capture.closed /\ ~capture.noDrain
    /\ capture.next = 1
    /\ capture' = [capture EXCEPT !.avail = MaxPkts, !.noDrain = TRUE]
    /\ UNCHANGED <<handed, observed, gpfVars, dbVars, calc, dq, condition, mp>>

\* mockSrc.Close, once the rotate calls of the test have returned
CapSrcClose ==
    /\ ~capture.closed
    /\ capture.cmdChan = "none"
    /\ capture' = [capture EXCEPT !.closed = TRUE]
    /\ UNCHANGED <<handed, observed, gpfVars, dbVars, calc, dq, condition, mp>>

\* mockC.rotate(): a rotate command is sent on the command channel
CapRotateCall ==
    /\ capture.cmdChan = "none"
    /\ ~capture.closed
    /\ capture.rotations < MaxRotations
    /\ capture' = [capture EXCEPT !.cmdChan = "rotate", !.rotations = @ + 1]
    /\ UNCHANGED <<handed, observed, gpfVars, dbVars, calc, dq, condition, mp>>

\* the capture thread takes the next packet from the source; the packets
\* 1..MaxPkts are followed individually, the packets a ring buffer that is
\* not drained yields after them are not (packet 0)
CapFetch ==
    /\ capture.pc = "loop"
    /\ PacketReady(capture)
    /\ IF capture.next <= MaxPkts
       THEN /\ capture' = [capture EXCEPT !.pc = "pkt", !.pkt = capture.next,
                                          !.next = @ + 1]
            /\ observed' = [p \in (DOMAIN observed) \cup {capture.next} |->
                               IF p = capture.next THEN Len(handed)
                               ELSE observed[p]]
       ELSE /\ capture' = [capture EXCEPT !.pc = "pkt", !.pkt = 0]
            /\ observed' = observed
    /\ UNCHANGED <<handed, gpfVars, dbVars, calc, dq, condition, mp>>

\* ... and counts it in the live flow map
CapAdd ==
    /\ capture.pc = "pkt"
    /\ capture' = [capture EXCEPT
                      !.pc = "loop", !.pkt = 0,
                      !.flowLog = IF capture.pkt = 0 THEN @
                                  ELSE Append(@, capture.pkt)]
    /\ UNCHANGED <<handed, observed, gpfVars, dbVars, calc, dq, condition, mp>>

\* the capture thread accepts a rotate command between two packets
CapAcceptRotate ==
    /\ capture.pc = "loop"
    /\ CommandReady(capture)
    /\ \E r \in {rotate(capture, handed)} :
          /\ capture' = r.capture
          /\ handed' = r.handed
    /\ UNCHANGED <<observed, gpfVars, dbVars, calc, dq, condition, mp>>

\* the writer has written the map handed to it
CapWriterDone ==
    /\ capture.state = "rotating"
    /\ capture' = [capture EXCEPT !.state = "active"]
    /\ UNCHANGED <<handed, observed, gpfVars, dbVars, calc, dq, condition, mp>>

\* the source is closed: process() returns
CapExit ==
    /\ capture.pc = "loop"
    /\ capture.closed
    /\ capture' = [capture EXCEPT !.pc = "done"]
    /\ UNCHANGED <<handed, observed, gpfVars, dbVars, calc, dq, condition, mp>>

CapNext ==
    \/ CapSrcAddPacket
    \/ CapSrcRunNoDrain
    \/ CapSrcClose
    \/ CapRotateCall
    \/ CapFetch
    \/ CapAdd
    \/ CapAcceptRotate
    \/ CapWriterDone
    \/ CapExit

\* the capture thread, the writer and the receiving end of the command
\* channel are scheduled as long as they can take a step
CapFairness ==
    /\ WF_vars(CapFetch)
    /\ WF_vars(CapAdd)
    /\ WF_vars(CapAcceptRotate)
    /\ WF_vars(CapWriterDone)
    /\ WF_vars(CapExit)

(***************************************************************************)
(* Query arguments: Args.Prepare                                           *)
(***************************************************************************)
\* errors are the chain of their messages, outermost first; nil is <<>>
NilErr == <<>>
\* fmt.Errorf(prefix + ": %w", err)
Wrap(prefix, err) == <<prefix>> \o err
\* errors.Unwrap
Unwrap(err) == Tail(err)

\* query.MaxResults, a row limit no result reaches
MaxResults == 1000000
\* types.MaxTime.Unix(), the end of a time range without upper bound
MaxTimeUnix == 999999

SortUnknown == "SortUnknown"
SortPackets == "SortPackets"
SortTraffic == "SortTraffic"
SortTime == "SortTime"
PermittedFormats == {"txt", "json", "csv", "influxdb"}
PermittedSortBy ==
    [k \in {"bytes", "packets", "time"} |->
        CASE k = "bytes" -> SortTraffic
          [] k = "packets" -> SortPackets
          [] OTHER -> SortTime]

DirectionUnknown == "unknown"
DirectionSum == "sum"
DirectionIn == "in"
DirectionOut == "out"
DirectionBoth == "both"

\* time arguments are strings of the characters 0..9 and of letters (10)
RECURSIVE DecimalString(_)
DecimalString(n) ==
    IF n < 10 THEN <<n>> ELSE Append(DecimalString(n \div 10), n % 10)
maxTimeStr == DecimalString(MaxTimeUnix)

RECURSIVE DecimalValue(_)
DecimalValue(str) ==
    IF str = <<>> THEN 0
    ELSE 10 * DecimalValue(SubSeq(str, 1, Len(str) - 1)) + str[Len(str)]

\* ParseTimeArgument, for epoch seconds
ParseTimeArgument(str) ==
    IF str = <<>> \/ \E k \in 1..Len(str) : str[k] \notin 0..9
    THEN [err |-> <<"failed to parse time argument">>, t |-> 0]
    ELSE [err |-> NilErr, t |-> DecimalValue(str)]

ParseTimeRange(firstStr, lastStr) ==
    LET last == ParseTimeArgument(lastStr)
        first == ParseTimeArgument(firstStr)
    IN  IF last.err # NilErr THEN [First |-> 0, Last |-> 0, err |-> last.err]
        ELSE IF first.err # NilErr
            THEN [First |-> 0, Last |-> 0, err |-> first.err]
        ELSE [First |-> first.t, Last |-> last.t, err |-> NilErr]

\* a query type is the list of its attribute names
Attributes == {"sip", "dip", "dport", "proto", "time", "iface"}
NoSelector == [Timestamp |-> FALSE, Iface |-> FALSE]
ParseQueryType(queryType) ==
    IF queryType = <<>>
           \/ \E k \in 1..Len(queryType) : queryType[k] \notin Attributes
    THEN [attributes |-> <<>>, selector |-> NoSelector,
          err |-> <<"unknown attribute">>]
    ELSE [attributes |->
              SelectSeq(queryType, LAMBDA x : x \notin {"time", "iface"}),
          selector |->
              [Timestamp |-> \E k \in 1..Len(queryType) :
                                 queryType[k] = "time",
               Iface |-> \E k \in 1..Len(queryType) : queryType[k] = "iface"],
          err |-> NilErr]

\* strings.Contains(x, name) for a list of names and the modelled names
ContainsName(list, name) == \E k \in 1..Len(list) : list[k] = name

\* a condition is the list of its tokens
ConditionTokens ==
    {"dport=80", "dport<100", "dport>100", "&", "and", "!", "(", ")", "bogus"}
\* conditions.SanitizeUserInput: the operator aliases are replaced
SanitizeUserInput(cond) ==
    IF ContainsName(cond, "bogus")
    THEN [cond |-> <<>>, err |-> <<"unexpected token">>]
    ELSE [cond |-> [k \in 1..Len(cond) |->
                       IF cond[k] = "and" THEN "&" ELSE cond[k]],
          err |-> NilErr]

\* results.ExcludeManagementNet: the condition without the management net
ExcludeManagementNet(cond) ==
    IF cond = <<>> THEN <<"!", "mgmt">>
    ELSE <<"(">> \o cond \o <<")", "&", "!", "mgmt">>

NoDNS == [Enabled |-> FALSE, Timeout |-> 0, MaxRows |-> 0]
NoStatement ==
    [QueryType |-> <<>>, DNSResolution |-> NoDNS, Condition |-> <<>>,
     Live |-> FALSE, Format |-> "", SortBy |-> SortUnknown,
     SortAscending |-> FALSE, attributes |-> <<>>,
     LabelSelector |-> NoSelector, Ifaces |-> <<>>, NumResults |-> 0,
     First |-> 0, Last |-> 0, Direction |-> DirectionUnknown,
     MaxMemPct |-> 0]

PResult(stmt, err, args) == [s |-> stmt, err |-> err, a |-> args]

\* s.NumResults = a.NumResults
NumResultsAfter(stmt, numResults) == [stmt EXCEPT !.NumResults = numResults]

\* override sorting direction and number of entries for time based queries
TimeOverride(stmt) ==
    IF stmt.LabelSelector.Timestamp
    THEN [stmt EXCEPT !.SortBy = SortTime, !.SortAscending = TRUE,
                      !.NumResults = MaxResults]
    ELSE stmt

\* (mutant) the in and out flags are looked at before the sum flag
DirectionOf_SumLast(a) ==
    IF a.In /\ ~a.Out THEN DirectionIn
    ELSE IF ~a.In /\ a.Out THEN DirectionOut
    ELSE IF a.Sum THEN DirectionSum
    ELSE DirectionBoth

\* the switch over a.Sum, a.In and a.Out that gives s.Direction
DirectionOf(a) ==
    IF a.Sum THEN DirectionSum
    ELSE IF a.In /\ ~a.Out THEN DirectionIn
    ELSE IF ~a.In /\ a.Out THEN DirectionOut
    ELSE DirectionBoth

\* Args.Prepare(); dnsErr: what dns.CheckDNS returns
Prepare(args, dnsErr) ==
    LET a1 == IF args.SortBy = "" THEN [args EXCEPT !.SortBy = "packets"]
              ELSE args
        s1 == [NoStatement EXCEPT
                  !.QueryType = a1.Query, !.DNSResolution = a1.DNSResolution,
                  !.Condition = a1.Condition, !.Live = a1.Live]
    IN
    IF a1.Format \notin PermittedFormats
    THEN PResult(s1, <<"unknown output format">>, a1)
    ELSE
    LET s2 == [s1 EXCEPT !.Format = a1.Format] IN
    IF a1.SortBy \notin DOMAIN PermittedSortBy
    THEN PResult(s2, <<"unknown sorting parameter">>, a1)
    ELSE
    LET s3 == [s2 EXCEPT !.SortBy = PermittedSortBy[a1.SortBy]]
        q == ParseQueryType(a1.Query)
        s4 == [s3 EXCEPT !.attributes = q.attributes]
    IN
    IF q.err # NilErr
    THEN PResult(s4, Wrap("failed to parse query type", q.err), a1)
    ELSE
    LET selector ==
            IF (Len(s4.Ifaces) > 1 \/ ContainsName(a1.Ifaces, "any"))
                   /\ ~ContainsName(a1.Query, "iface")
            THEN [q.selector EXCEPT !.Iface = TRUE]
            ELSE q.selector
        s5 == TimeOverride([s4 EXCEPT !.LabelSelector = selector])
        tr == ParseTimeRange(a1.First, a1.Last)
        s6 == [s5 EXCEPT !.First = tr.First, !.Last = tr.Last]
    IN
    IF tr.err # NilErr THEN PResult(s6, tr.err, a1)
    ELSE
    LET a2 == IF a1.External
              THEN LET x == [a1 EXCEPT
                                !.Condition = ExcludeManagementNet(@)]
                   IN  IF x.In /\ x.Out
                       THEN [x EXCEPT !.Sum = TRUE, !.In = FALSE,
                                      !.Out = FALSE]
                       ELSE x
              ELSE a1
        s7 == [s6 EXCEPT !.Direction = DirectionOf(a2)]
    IN
    IF s7.DNSResolution.Enabled /\ dnsErr # NilErr
    THEN PResult(s7, Wrap("DNS warning", dnsErr), a2)
    ELSE IF s7.DNSResolution.Enabled /\ ~(0 < s7.DNSResolution.Timeout)
    THEN PResult(s7, <<"resolve-timeout must be greater than 0">>, a2)
    ELSE IF s7.DNSResolution.Enabled /\ ~(0 < s7.DNSResolution.MaxRows)
    THEN PResult(s7, <<"resolve-rows must be greater than 0">>, a2)
    ELSE
    LET san == SanitizeUserInput(a2.Condition)
        a3 == [a2 EXCEPT !.Condition = san.cond]
    IN
    IF san.err # NilErr
    THEN PResult(s7, Wrap("failed to sanitize condition", san.err), a3)
    ELSE
    LET s8 == [s7 EXCEPT !.Condition = a3.Condition] IN
    IF ~(0 < a3.MaxMemPct /\ a3.MaxMemPct <= 100)
    THEN PResult(s8, <<"invalid memory percentage">>, a3)
    ELSE
    LET s9 == [s8 EXCEPT !.MaxMemPct = a3.MaxMemPct] IN
    IF ~(0 < a3.NumResults)
    THEN PResult(s9, <<"the printed row limit must be greater than 0">>, a3)
    ELSE
    LET s10 == NumResultsAfter(s9, a3.NumResults) IN
    IF s10.Live /\ s10.Last # MaxTimeUnix
    THEN PResult(s10, <<"live query not possible if query has last timestamp">>,
                 a3)
    ELSE PResult(s10, NilErr, a3)

(***************************************************************************)
(* The functions of the write path, applied to any input                   *)
(***************************************************************************)
Key4(a, b, p, q) ==
    [v4 |-> TRUE, sip |-> <<a, 0, 0, 1>>, dip |-> <<b, 0, 0, 1>>,
     dport |-> <<0, p>>, proto |-> q]
Key6(a, q) ==
    [v4 |-> FALSE,
     sip |-> <<a, 0, 0, 0, 0, 0, 0, 0, 0, 0, 0, 0, 0, 0, 0, 1>>,
     dip |-> <<32, 1, 0, 0, 0, 0, 0, 0, 0, 0, 0, 0, 0, 0, 0, 9>>,
     dport |-> <<1, 187>>, proto |-> q]

\* keys that differ in one attribute each, below and above byte 127
Keys4 ==
    {Key4(10, 10, 80, 6), Key4(200, 10, 80, 6), Key4(10, 200, 80, 6),
     Key4(10, 10, 200, 6), Key4(10, 10, 80, 200)}
Keys6 == {Key6(32, 6), Key6(254, 6)}

\* a list item: the key and its counters, no two of them equal
ListItem(key, c) ==
    [v4 |-> key.v4, sip |-> key.sip, dip |-> key.dip, dport |-> key.dport,
     proto |-> key.proto,
     NBytesRcvd |-> c, NBytesSent |-> c + 2,
     NPktsRcvd |-> c + 4, NPktsSent |-> c + 6]

RECURSIVE ListsUpTo(_, _)
ListsUpTo(S, n) ==
    IF n = 0 THEN {<<>>}
    ELSE LET L == ListsUpTo(S, n - 1)
         IN  L \cup {Append(l, x) : l \in {t \in L : Len(t) = n - 1}, x \in S}

\* the lists Flatten may return for a map: no key twice, in any order
DistinctKeys(l) ==
    \A i, j \in 1..Len(l) :
        i # j => <<l[i].sip, l[i].dip, l[i].dport, l[i].proto>>
                     # <<l[j].sip, l[j].dip, l[j].dport, l[j].proto>>
Flattened(items, n) == {l \in ListsUpTo(items, n) : DistinctKeys(l)}

\* the flows of the maps handed to dbData
MapItems4 ==
    {ListItem(k, c) :
        k \in {Key4(10, 10, 80, 6), Key4(200, 10, 80, 6),
               Key4(10, 10, 80, 200)},
        c \in 0..MaxCounter}
MapItems6 == {ListItem(k, MaxCounter) : k \in Keys6}

\* the lists handed to Sort: of one address family, keys may repeat
SortInputs ==
    ListsUpTo({ListItem(k, 0) : k \in Keys4}, MaxFlows)
        \cup ListsUpTo({ListItem(k, 0) : k \in Keys6}, MaxFlows)

\* timestamps around the day boundaries, before and after the epoch
CalcTimestamps ==
    {d * EpochDay + o : d \in (-MaxDay - 1)..MaxDay,
                        o \in {0, 1, DBWriteInterval, EpochDay - 1}}

\* the local query engine over the blocks of one interface, blocks being
\* the flows written per timestamp
StatusError == "error"
StatusOK == "ok"
StatusEmpty == "empty"
Port(f) == 256 * f.dport[1] + f.dport[2]

\* a comparison of the condition, evaluated on a flow
AtomHolds(atom, f) ==
    CASE atom = "dport=80" -> Port(f) = 80
      [] atom = "dport<100" -> Port(f) < 100
      [] atom = "dport>100" -> Port(f) > 100
      [] OTHER -> FALSE

\* a conjunction of comparisons; without comparison it is true
Eval(cond, f) ==
    \A k \in 1..Len(cond) : cond[k] = "&" \/ AtomHolds(cond[k], f)

\* planning: the timestamps of the blocks of the days of [first, last]
\* that lie in the range, in ascending order
RECURSIVE Ascending(_)
Ascending(S) ==
    IF S = {} THEN <<>>
    ELSE LET m == CHOOSE x \in S : \A y \in S : x <= y
         IN  <<m>> \o Ascending(S \ {m})

Plan(blocks, first, last) ==
    Ascending({ts \in DOMAIN blocks :
                  /\ DayTimestamp(first) <= DayTimestamp(ts)
                  /\ DayTimestamp(ts) <= DayTimestamp(last)
                  /\ first <= ts /\ ts <= last})

\* the key a flow of the block at ts is projected to
Project(stmt, ts, f) ==
    <<[k \in 1..Len(stmt.attributes) |-> f[stmt.attributes[k]]],
      IF stmt.LabelSelector.Timestamp THEN ts ELSE 0>>

\* the counters of a flow under the direction policy
Counters(direction, f) ==
    CASE direction = DirectionSum ->
             [BytesRcvd |-> f.NBytesRcvd + f.NBytesSent, BytesSent |-> 0,
              PacketsRcvd |-> f.NPktsRcvd + f.NPktsSent, PacketsSent |-> 0]
      [] direction = DirectionIn ->
             [BytesRcvd |-> f.NBytesRcvd, BytesSent |-> 0,
              PacketsRcvd |-> f.NPktsRcvd, PacketsSent |-> 0]
      [] direction = DirectionOut ->
             [BytesRcvd |-> 0, BytesSent |-> f.NBytesSent,
              PacketsRcvd |-> 0, PacketsSent |-> f.NPktsSent]
      [] OTHER ->
             [BytesRcvd |-> f.NBytesRcvd, BytesSent |-> f.NBytesSent,
              PacketsRcvd |-> f.NPktsRcvd, PacketsSent |-> f.NPktsSent]

AddCounters(a, b) ==
    [BytesRcvd |-> a.BytesRcvd + b.BytesRcvd,
     BytesSent |-> a.BytesSent + b.BytesSent,
     PacketsRcvd |-> a.PacketsRcvd + b.PacketsRcvd,
     PacketsSent |-> a.PacketsSent + b.PacketsSent]

\* the rows of a block folded into the rows map
RECURSIVE ScanBlock(_, _, _, _)
ScanBlock(stmt, ts, flows, rows) ==
    IF flows = <<>> THEN rows
    ELSE LET f == Head(flows)
             key == Project(stmt, ts, f)
             c == Counters(stmt.Direction, f)
             r1 == IF ~Eval(stmt.Condition, f) THEN rows
                   ELSE [k \in (DOMAIN rows) \cup {key} |->
                            IF k = key
                            THEN IF key \in DOMAIN rows
                                 THEN AddCounters(rows[key], c) ELSE c
                            ELSE rows[k]]
         IN  ScanBlock(stmt, ts, Tail(flows), r1)

RECURSIVE Scan(_, _, _, _)
Scan(stmt, blocks, plan, rows) ==
    IF plan = <<>> THEN rows
    ELSE Scan(stmt, blocks, Tail(plan),
              ScanBlock(stmt, Head(plan), blocks[Head(plan)], rows))

NoRows == [k \in {} |-> 0]

\* (mutant) a result without rows has the status ok
StatusOf_AlwaysOK(rows) == StatusOK

\* the status of the result: empty without rows
StatusOf(rows) == IF DOMAIN rows = {} THEN StatusEmpty ELSE StatusOK

\* engine.QueryRunner.Run(ctx, args) over the blocks of the interface
EngineRun(blocks, args) ==
    LET p == Prepare(args, NilErr) IN
    IF p.err # NilErr
    THEN [err |-> Wrap("failed to prepare query", p.err),
          Status |-> StatusError, Rows |-> NoRows, Displayed |-> 0]
    ELSE LET rows == Scan(p.s, blocks, Plan(blocks, p.s.First, p.s.Last),
                          NoRows)
             n == Cardinality(DOMAIN rows)
         IN  [err |-> NilErr, Status |-> StatusOf(rows), Rows |-> rows,
              Displayed |-> IF p.s.NumResults < n THEN p.s.NumResults ELSE n]

\* the databases handed to the engine: blocks of two days with flows to
\* port 80 and port 200
EngineTimestamps == {DBWriteInterval, 2 * DBWriteInterval,
                     EpochDay + DBWriteInterval}
EngineFlows ==
    {<<>>, <<ListItem(Key4(10, 10, 80, 6), 1)>>,
     <<ListItem(Key4(10, 10, 80, 6), 1), ListItem(Key4(10, 10, 200, 6), 1)>>,
     <<ListItem(Key4(10, 10, 80, 6), 0), ListItem(Key4(200, 10, 80, 6), 1)>>}
EngineDBs ==
    UNION {[T -> EngineFlows] : T \in SUBSET EngineTimestamps}

\* the arguments handed to Prepare: a valid set of arguments, and what
\* the caller may put in their place
ValidArgs ==
    [Query |-> <<"sip", "dip">>, Ifaces |-> <<"eth0">>, QueryHosts |-> <<1>>,
     Condition |-> <<>>, In |-> TRUE, Out |-> TRUE, Sum |-> FALSE,
     First |-> <<1>>, Last |-> maxTimeStr, Format |-> "json",
     SortBy |-> "bytes", NumResults |-> 1, SortAscending |-> FALSE,
     External |-> FALSE,
     DNSResolution |-> [Enabled |-> FALSE, Timeout |-> 1, MaxRows |-> 1],
     MaxMemPct |-> 60, Live |-> FALSE]

\* the queries: any flow, port 80, and the condition no flow fulfils; over
\* all blocks, up to the first block, and before the first block
EngineArgs ==
    {[ValidArgs EXCEPT !.Query = q, !.Condition = cond, !.Last = last,
                       !.NumResults = n] :
        q \in {<<"sip", "dip">>, <<"time", "dport">>, <<"bogus">>},
        cond \in {<<>>, <<"dport=80">>, <<"dport<100", "and", "dport>100">>},
        last \in {maxTimeStr, DecimalString(DBWriteInterval),
                  DecimalString(DBWriteInterval - 1)},
        n \in {1, MaxResults}}

\* format, sort order, query type, time range, memory and row limits
LimitArgs ==
    {[ValidArgs EXCEPT !.Format = f, !.SortBy = sb, !.SortAscending = asc,
                       !.Query = q, !.First = first, !.Last = last,
                       !.MaxMemPct = mem, !.NumResults = n, !.Live = live] :
        f \in {"json", "bogus"}, sb \in {"", "bytes", "time", "bogus"},
        asc \in BOOLEAN,
        q \in {<<"sip", "dip">>, <<"time", "sip">>, <<"bogus">>},
        first \in {<<1>>, <<10>>}, last \in {<<2>>, maxTimeStr, <<10>>},
        mem \in {0, 1, 100, 101},
        n \in (0..MaxNumResults) \cup {MaxResults}, live \in BOOLEAN}

\* interfaces, directions, DNS resolution and condition
SelectionArgs ==
    {[ValidArgs EXCEPT !.Ifaces = ifaces, !.Query = q, !.External = ext,
                       !.In = in, !.Out = out, !.Sum = sum,
                       !.DNSResolution = dns, !.Condition = cond] :
        ifaces \in {<<"eth0">>, <<"any">>, <<"eth0", "eth1">>},
        q \in {<<"sip">>, <<"iface", "sip">>, <<"time", "sip">>},
        ext \in BOOLEAN, in \in BOOLEAN, out \in BOOLEAN, sum \in BOOLEAN,
        dns \in {[Enabled |-> e, Timeout |-> t, MaxRows |-> r] :
                    e \in BOOLEAN, t \in {0, 1}, r \in {0, 1}},
        cond \in {<<>>, <<"dport=80", "and", "dport=80">>, <<"bogus">>}}

DNSErrors == {NilErr, <<"DNS not reachable">>}

\* no function has been called yet; each behaviour calls one
NoCalc == [op |-> "none"]

CalcSort(l) ==
    /\ calc = NoCalc
    /\ calc' = [op |-> "Sort", list |-> l, sorted |-> Sort(l)]
    /\ UNCHANGED <<gpfVars, dbVars, capVars, dq, condition, mp>>

CalcDbData(v4Flat, v6Flat) ==
    /\ calc = NoCalc
    /\ calc' = [op |-> "dbData", v4 |-> v4Flat, v6 |-> v6Flat,
                data |-> dbData(v4Flat, v6Flat)]
    /\ UNCHANGED <<gpfVars, dbVars, capVars, dq, condition, mp>>

CalcDayTimestamp(timestamp) ==
    /\ calc = NoCalc
    /\ calc' = [op |-> "DayTimestamp", timestamp |-> timestamp,
                day |-> DayTimestamp(timestamp)]
    /\ UNCHANGED <<gpfVars, dbVars, capVars, dq, condition, mp>>

CalcPrepare(args, dnsErr) ==
    /\ calc = NoCalc
    /\ calc' = [op |-> "Prepare", args |-> args, dnsErr |-> dnsErr,
                res |-> Prepare(args, dnsErr)]
    /\ UNCHANGED <<gpfVars, dbVars, capVars, dq, condition, mp>>

CalcEngineRun(blocks, args) ==
    /\ calc = NoCalc
    /\ calc' = [op |-> "Run", blocks |-> blocks, args |-> args,
                res |-> EngineRun(blocks, args)]
    /\ UNCHANGED <<gpfVars, dbVars, capVars, dq, condition, mp>>

CalcNext ==
    \/ \E l \in SortInputs : CalcSort(l)
    \/ \E l4 \in Flattened(MapItems4, MaxMapFlows),
          l6 \in Flattened(MapItems6, MaxMapFlows) : CalcDbData(l4, l6)
    \/ \E t \in CalcTimestamps : CalcDayTimestamp(t)
    \/ \E a \in LimitArgs : CalcPrepare(a, NilErr)
    \/ \E a \in SelectionArgs, e \in DNSErrors : CalcPrepare(a, e)
    \/ \E b \in EngineDBs, a \in EngineArgs : CalcEngineRun(b, a)

(***************************************************************************)
(* Distributed query: prepareQueries -> runQueries -> aggregateResults      *)
(***************************************************************************)
\* what the run of a host's workload returns: an error, or a result with
\* rows (one counter per key), its totals and hits
HostError(h) == <<"host error", h>>
\* more: the hits the host counted beyond the rows it returned.  Every
\* host has the interface eth0, the first host eth1 as well; Query is the
\* query type the host was asked for, First and Last the time span its
\* result covers
HostResult(h, keys, more) ==
    [HostsStatuses |-> [x \in {h} |-> [Code |-> StatusOK, Message |-> <<>>]],
     Rows |-> [k \in keys |-> 1],
     Totals |-> Cardinality(keys),
     HitsTotal |-> Cardinality(keys) + more,
     Interfaces |-> IF h = 1 THEN {"eth0", "eth1"} ELSE {"eth0"},
     Query |-> <<"sip", "dip">>, First |-> 1, Last |-> 2]
NilResult ==
    [HostsStatuses |-> [x \in {} |-> [Code |-> StatusOK, Message |-> <<>>]],
     Rows |-> [k \in {} |-> 0], Totals |-> 0, HitsTotal |-> 0,
     Interfaces |-> {}, Query |-> <<>>, First |-> 0, Last |-> 0]
\* the keys of a host's rows: the first k keys, or the last key only
KeySets == {1..k : k \in 0..MaxKeys} \cup {{MaxKeys}}
\* a failed run, rows for one of the key sets, more hits than rows, and a
\* host whose data begin later
Responses(h) ==
    {[result |-> NilResult, err |-> HostError(h)]}
        \cup {[result |-> HostResult(h, keys, 0), err |-> NilErr] :
                 keys \in KeySets}
        \cup {[result |-> HostResult(h, {1}, 1), err |-> NilErr]}
        \cup {[result |-> [HostResult(h, {1}, 0) EXCEPT !.First = 2],
                err |-> NilErr]}

\* results.New()
NewResult == NilResult

\* RowsMap.MergeRows: counters of equal keys are added; the number of rows
\* that met a key already present is returned
MergeRows(rowMap, rows) ==
    [rowMap |-> [k \in (DOMAIN rowMap) \cup (DOMAIN rows) |->
                    (IF k \in DOMAIN rowMap THEN rowMap[k] ELSE 0)
                        + (IF k \in DOMAIN rows THEN rows[k] ELSE 0)],
     merged |-> Cardinality((DOMAIN rowMap) \cap (DOMAIN rows))]

\* (mutant) one runner per host, whatever maxConcurrent is
NumRunners_PerHost(maxConcurrent, nHosts) == nHosts

\* Run: numRunners := len(hostList), or maxConcurrent if that is set
NumRunners(maxConcurrent, nHosts) ==
    IF maxConcurrent > 0 THEN maxConcurrent ELSE nHosts

\* (mutant) the status carries the message of the wrapping error
StatusMessage_Wrapped(err) == err

\* aggregateResults: the message of the unwrapped error if there is one
StatusMessage(err) ==
    IF Unwrap(err) # NilErr THEN Unwrap(err) ELSE err

\* (mutant) the hits of the hosts are added up
HitsAfter_NoDeduct(total, hits, merged) == total + hits

\* Hits.Total += res.Summary.Hits.Total - merged
HitsAfter(total, hits, merged) == total + hits - merged

\* (mutant) the totals are those of the last response
TotalsAfter_Last(totals, other) == other

\* Summary.Totals = Summary.Totals.Add(res.Summary.Totals)
TotalsAfter(totals, other) == totals + other

\* aggregateResults, one response folded into the final result
Fold(final, qr) ==
    IF qr.err # NilErr
    THEN [final EXCEPT !.HostsStatuses =
             [h \in (DOMAIN @) \cup {qr.host} |->
                 IF h = qr.host
                 THEN [Code |-> StatusError, Message |-> StatusMessage(qr.err)]
                 ELSE @[h]]]
    ELSE LET res == qr.result
             m == MergeRows(final.Rows, res.Rows)
         IN  [HostsStatuses |->
                  [h \in (DOMAIN final.HostsStatuses)
                             \cup (DOMAIN res.HostsStatuses) |->
                      IF h \in DOMAIN res.HostsStatuses
                      THEN res.HostsStatuses[h] ELSE final.HostsStatuses[h]],
              Rows |-> m.rowMap,
              Totals |-> TotalsAfter(final.Totals, res.Totals),
              HitsTotal |-> HitsAfter(final.HitsTotal, res.HitsTotal,
                                      m.merged),
              Interfaces |-> final.Interfaces \cup res.Interfaces,
              Query |-> res.Query,
              First |-> res.First, Last |-> res.Last]

\* RowsMap.ToRowsSorted: the rows by their counter, descending unless
\* ascending is asked for, rows with equal counters by their key
RECURSIVE ToRowsSorted(_, _)
ToRowsSorted(rowMap, ascending) ==
    IF DOMAIN rowMap = {} THEN <<>>
    ELSE LET before(k, l) ==
                 \/ IF ascending THEN rowMap[k] < rowMap[l]
                    ELSE rowMap[k] > rowMap[l]
                 \/ rowMap[k] = rowMap[l] /\ k <= l
             k == CHOOSE x \in DOMAIN rowMap :
                      \A y \in DOMAIN rowMap : before(x, y)
         IN  <<[key |-> k, counter |-> rowMap[k]]>>
                 \o ToRowsSorted([l \in (DOMAIN rowMap) \ {k} |-> rowMap[l]],
                                 ascending)

\* (mutant) Run returns the arguments it has prepared to the caller
CallerArgsAfter_Shared(args, queryArgs) == queryArgs

\* queryArgs := *args: Run prepares a copy, the fields of Args are values
CallerArgsAfter(args, queryArgs) == args

\* the end of aggregateResults and of Run: the rows are sorted and
\* truncated to the limit, Hits.Displayed is their number
Returned(final, stmt, queryArgs) ==
    LET rows == ToRowsSorted(final.Rows, stmt.SortAscending)
        shown == IF queryArgs.NumResults < Len(rows)
                 THEN SubSeq(rows, 1, queryArgs.NumResults) ELSE rows
    IN  [Rows |-> shown, Displayed |-> Len(shown)]

NoWorker == [pc |-> "done", host |-> 0, result |-> NilResult, err |-> NilErr]

\* no query is running.  pc: "idle", "running" (Run is in aggregateResults),
\* "returned" or "panicked"; next: the host whose workload the producer
\* sends next; workloadsClosed, outClosed: the channels are closed; out:
\* the buffered response channel; final: the result of aggregateResults;
\* result: the rows Run returns; args: the caller's Args; queryArgs: Run's
\* copy of them.  Ghosts: resp, what the hosts' runs returned; runs and
\* folds, how often a host's workload was run and its response folded;
\* createFailed, the hosts whose workload could not be created;
\* argsBefore, the caller's Args at the call
NoQuery ==
    [pc |-> "idle", nHosts |-> 0, maxConcurrent |-> 0, numRunners |-> 0,
     ctxDone |-> FALSE, next |-> 1, workloadsClosed |-> FALSE,
     workers |-> [w \in {} |-> NoWorker],
     out |-> <<>>, outClosed |-> FALSE,
     final |-> NewResult, retErr |-> NilErr,
     result |-> [Rows |-> <<>>, Displayed |-> 0],
     resp |-> [h \in {} |-> [result |-> NilResult, err |-> NilErr]],
     runs |-> [h \in {} |-> 0], folds |-> [h \in {} |-> 0],
     createFailed |-> {},
     args |-> ValidArgs, queryArgs |-> ValidArgs, argsBefore |-> ValidArgs,
     resolved |-> FALSE]

\* the arguments handed to Run: valid ones, and arguments with one of the
\* fields out of its range
RunArgs ==
    {ValidArgs}
        \cup {[ValidArgs EXCEPT !.QueryHosts = <<>>],
              [ValidArgs EXCEPT !.Format = "bogus"],
              [ValidArgs EXCEPT !.SortBy = "bogus"],
              [ValidArgs EXCEPT !.Query = <<"bogus">>],
              [ValidArgs EXCEPT !.First = <<10>>],
              [ValidArgs EXCEPT !.Last = <<10>>],
              [ValidArgs EXCEPT !.Live = TRUE, !.Last = <<2>>]}
        \cup {[ValidArgs EXCEPT !.MaxMemPct = m] : m \in {0, 101}}
        \cup {[ValidArgs EXCEPT !.NumResults = n] : n \in {-1, 0}}
        \cup {[ValidArgs EXCEPT !.SortBy = "", !.External = TRUE,
                                !.Condition = <<"dport=80", "and",
                                                "dport<100">>]}

\* what the resolver makes of the host list: an error, or n hosts
Resolutions ==
    {[err |-> <<"resolver failed">>, n |-> 0]}
        \cup {[err |-> NilErr, n |-> n] : n \in 0..MaxHosts}

\* (mutant) the statement is not prepared before the hosts are resolved
PrepareError_HostsOnly(queryArgs) ==
    IF queryArgs.QueryHosts = <<>>
    THEN <<"couldn't prepare query: list of target hosts is empty">>
    ELSE NilErr

\* Run: the checks of the arguments before the host list is resolved
PrepareError(queryArgs) ==
    IF queryArgs.QueryHosts = <<>>
    THEN <<"couldn't prepare query: list of target hosts is empty">>
    ELSE LET p == Prepare(queryArgs, NilErr)
         IN  IF p.err # NilErr
             THEN Wrap("failed to prepare query statement", p.err)
             ELSE NilErr

\* QueryRunner.Run up to the start of the pipeline; resolved: Resolve has
\* been called
DQRun(args, hostList, maxConcurrent) ==
    /\ dq.pc = "idle"
    /\ \E e \in {PrepareError(args)},
          qa \in {IF args.QueryHosts = <<>> THEN args
                  ELSE Prepare(args, NilErr).a} :
          IF e # NilErr
          THEN dq' = [dq EXCEPT !.pc = "returned", !.retErr = e,
                                !.args = CallerArgsAfter(args, qa),
                                !.queryArgs = qa, !.argsBefore = args]
          ELSE IF hostList.err # NilErr
          THEN dq' = [dq EXCEPT
                         !.pc = "returned", !.resolved = TRUE,
                         !.args = CallerArgsAfter(args, qa),
                         !.queryArgs = qa, !.argsBefore = args,
                         !.retErr = Wrap("failed to resolve host list",
                                         hostList.err)]
          ELSE \E n \in {NumRunners(maxConcurrent, hostList.n)} :
                  dq' = [dq EXCEPT
                            !.pc = "running", !.nHosts = hostList.n,
                            !.resolved = TRUE,
                            !.args = CallerArgsAfter(args, qa),
                            !.queryArgs = qa, !.argsBefore = args,
                            !.runs = [h \in 1..hostList.n |-> 0],
                            !.folds = [h \in 1..hostList.n |-> 0],
                            !.maxConcurrent = maxConcurrent, !.numRunners = n,
                            !.workers = [w \in 1..n |->
                                            [NoWorker EXCEPT !.pc = "select"]]]
    /\ UNCHANGED <<gpfVars, dbVars, capVars, calc, condition, mp>>

\* the parent context is cancelled while the query runs
DQCancel ==
    /\ dq.pc = "running"
    /\ ~dq.ctxDone
    /\ dq' = [dq EXCEPT !.ctxDone = TRUE]
    /\ UNCHANGED <<gpfVars, dbVars, capVars, calc, condition, mp>>

\* prepareQueries: all workloads are sent, the channel is closed
DQProducerClose ==
    /\ dq.pc \in {"running", "returned"}
    /\ dq.next > dq.nHosts
    /\ ~dq.workloadsClosed
    /\ dq' = [dq EXCEPT !.workloadsClosed = TRUE]
    /\ UNCHANGED <<gpfVars, dbVars, capVars, calc, condition, mp>>

\* runQueries, worker w: case <-ctx.Done()
DQWorkerCtxDone(w) ==
    /\ w \in DOMAIN dq.workers
    /\ dq.workers[w].pc = "select"
    /\ dq.ctxDone
    /\ dq' = [dq EXCEPT !.workers[w].pc = "done"]
    /\ UNCHANGED <<gpfVars, dbVars, capVars, calc, condition, mp>>

\* what querier.CreateQueryWorkload returns: a workload, or an error
\* together with no workload
Workloads == {"created", "failed"}

\* (mutant) a worker ends after its first response
AfterSend_Done == "done"

\* a worker is back at its select after it has sent a response
AfterSend == "select"

\* worker w: case wl, open := <-workloads, the producer sending what
\* CreateQueryWorkload has returned for the next host on the unbuffered
\* channel, whether it has logged an error or not; the worker dereferences
\* the workload, which ends the process if there is none
DQWorkerReceive(w, wl) ==
    /\ w \in DOMAIN dq.workers
    /\ dq.workers[w].pc = "select"
    /\ dq.next <= dq.nHosts
    /\ dq' = IF wl = "created"
             THEN [dq EXCEPT !.workers[w].pc = "run",
                             !.workers[w].host = dq.next,
                             !.next = @ + 1]
             ELSE [dq EXCEPT !.pc = "panicked",
                             !.createFailed = @ \cup {dq.next},
                             !.next = @ + 1,
                             !.workers = [v \in DOMAIN @ |->
                                             [@[v] EXCEPT !.pc = "crashed"]]]
    /\ UNCHANGED <<gpfVars, dbVars, capVars, calc, condition, mp>>

\* worker w: the workload channel is closed
DQWorkerClosed(w) ==
    /\ w \in DOMAIN dq.workers
    /\ dq.workers[w].pc = "select"
    /\ dq.workloadsClosed
    /\ dq' = [dq EXCEPT !.workers[w].pc = "done"]
    /\ UNCHANGED <<gpfVars, dbVars, capVars, calc, condition, mp>>

\* worker w: wl.Runner.Run returns; an error is wrapped
DQWorkerRun(w, r) ==
    /\ w \in DOMAIN dq.workers
    /\ dq.workers[w].pc = "run"
    /\ dq' = [dq EXCEPT
                 !.workers[w].pc = "send",
                 !.workers[w].result = r.result,
                 !.workers[w].err =
                     IF r.err # NilErr
                     THEN Wrap("failed to run query", r.err) ELSE NilErr,
                 !.resp = [h \in (DOMAIN @) \cup {dq.workers[w].host} |->
                              IF h = dq.workers[w].host THEN r ELSE @[h]],
                 !.runs[dq.workers[w].host] = @ + 1]
    /\ UNCHANGED <<gpfVars, dbVars, capVars, calc, condition, mp>>

\* worker w: out <- qr, as long as the buffer has room
DQWorkerSend(w) ==
    /\ w \in DOMAIN dq.workers
    /\ dq.workers[w].pc = "send"
    /\ ~dq.outClosed
    /\ Len(dq.out) < dq.numRunners
    /\ dq' = [dq EXCEPT
                 !.out = Append(@, [host |-> dq.workers[w].host,
                                    result |-> dq.workers[w].result,
                                    err |-> dq.workers[w].err]),
                 !.workers[w] = [NoWorker EXCEPT !.pc = AfterSend]]
    /\ UNCHANGED <<gpfVars, dbVars, capVars, calc, condition, mp>>

\* runQueries: wg.Wait(); close(out)
DQCloser ==
    /\ dq.pc \in {"running", "returned"}
    /\ ~dq.outClosed
    /\ \A w \in DOMAIN dq.workers : dq.workers[w].pc = "done"
    /\ dq' = [dq EXCEPT !.outClosed = TRUE]
    /\ UNCHANGED <<gpfVars, dbVars, capVars, calc, condition, mp>>

\* aggregateResults: case <-ctx.Done(); Run returns the result
DQAggregateCtxDone ==
    /\ dq.pc = "running"
    /\ dq.ctxDone
    /\ dq' = [dq EXCEPT
                 !.pc = "returned",
                 !.result = Returned(dq.final,
                                     Prepare(dq.argsBefore, NilErr).s,
                                     dq.queryArgs)]
    /\ UNCHANGED <<gpfVars, dbVars, capVars, calc, condition, mp>>

\* aggregateResults: case qr, open := <-queryResults, a response
DQAggregateReceive ==
    /\ dq.pc = "running"
    /\ dq.out # <<>>
    /\ dq' = [dq EXCEPT !.out = Tail(@), !.final = Fold(@, Head(dq.out)),
                        !.folds[Head(dq.out).host] = @ + 1]
    /\ UNCHANGED <<gpfVars, dbVars, capVars, calc, condition, mp>>

\* aggregateResults: the response channel is closed and empty; Run
\* returns the result
DQAggregateClosed ==
    /\ dq.pc = "running"
    /\ dq.out = <<>>
    /\ dq.outClosed
    /\ dq' = [dq EXCEPT
                 !.pc = "returned",
                 !.result = Returned(dq.final,
                                     Prepare(dq.argsBefore, NilErr).s,
                                     dq.queryArgs)]
    /\ UNCHANGED <<gpfVars, dbVars, capVars, calc, condition, mp>>

Runners == 1..(IF MaxConcurrent > MaxHosts THEN MaxConcurrent ELSE MaxHosts)

\* the host whose workload worker w holds
WorkerHost(w) == IF w \in DOMAIN dq.workers THEN dq.workers[w].host ELSE 0

DQNext ==
    \/ \E a \in RunArgs, hl \in Resolutions, mc \in 0..MaxConcurrent :
           DQRun(a, hl, mc)
    \/ DQCancel
    \/ DQProducerClose
    \/ \E w \in Runners : DQWorkerCtxDone(w)
    \/ \E w \in Runners, wl \in Workloads : DQWorkerReceive(w, wl)
    \/ \E w \in Runners : DQWorkerClosed(w)
    \/ \E w \in Runners : \E r \in Responses(WorkerHost(w)) :
           DQWorkerRun(w, r)
    \/ \E w \in Runners : DQWorkerSend(w)
    \/ DQCloser
    \/ DQAggregateCtxDone
    \/ DQAggregateReceive
    \/ DQAggregateClosed

\* the control flow of the pipeline does not depend on what the arguments
\* and the responses hold beyond their error: under fair scheduling the
\* query is run with valid arguments, a host's run failing or returning one
\* row
LiveResponses(h) ==
    {[result |-> NilResult, err |-> HostError(h)],
     [result |-> HostResult(h, {1}, 0), err |-> NilErr]}

DQLiveNext ==
    \/ \E hl \in Resolutions, mc \in 0..MaxConcurrent :
           DQRun(ValidArgs, hl, mc)
    \/ DQCancel
    \/ DQProducerClose
    \/ \E w \in Runners : DQWorkerCtxDone(w)
    \/ \E w \in Runners, wl \in Workloads : DQWorkerReceive(w, wl)
    \/ \E w \in Runners : DQWorkerClosed(w)
    \/ \E w \in Runners : \E r \in LiveResponses(WorkerHost(w)) :
           DQWorkerRun(w, r)
    \/ \E w \in Runners : DQWorkerSend(w)
    \/ DQCloser
    \/ DQAggregateCtxDone
    \/ DQAggregateReceive
    \/ DQAggregateClosed

\* every goroutine of the pipeline is scheduled as long as it can take a
\* step; the cancellation is up to the caller
DQFairness ==
    /\ WF_vars(DQProducerClose)
    /\ \A w \in Runners :
          /\ WF_vars(DQWorkerCtxDone(w)
                        \/ (\E wl \in Workloads : DQWorkerReceive(w, wl))
                        \/ DQWorkerClosed(w))
          /\ WF_vars(\E r \in LiveResponses(WorkerHost(w)) :
                         DQWorkerRun(w, r))
          /\ WF_vars(DQWorkerSend(w))
    /\ WF_vars(DQCloser)
    /\ WF_vars(DQAggregateCtxDone \/ DQAggregateReceive \/ DQAggregateClosed)

(***************************************************************************)
(* goquery completion of the condition                                     *)
(***************************************************************************)
FilterKeywordDirection == "dir"
FilterKeywordDirectionSugared == "direction"
DirectionFilters ==
    {"in", "out", "uni", "bi",
     "inbound", "outbound", "unidirectional", "bidirectional"}
\* names of protocols.IPProtocolIDs
IPProtocolIDs == {"icmp", "tcp", "udp"}
Comparators == {"=", "!=", "<", ">", "<=", ">="}
IPAttributes == {"dip", "sip", "dnet", "snet", "dst", "src", "host", "net"}
PortAttributes == {"dport", "port", "proto"}

\* strings.Contains(token, part) for the tokens of a condition
Contains(token, part) ==
    CASE part = "dir" ->
             token \in {"dir", "direction", "unidirectional", "bidirectional"}
      [] part = "direction" ->
             token \in {"direction", "unidirectional", "bidirectional"}
      [] part = "directional" ->
             token \in {"unidirectional", "bidirectional"}
      [] OTHER -> token = part

\* the last tokens of a list, "" where there is none
lastOf(tokens) == IF Len(tokens) >= 1 THEN tokens[Len(tokens)] ELSE ""
penultimate(tokens) ==
    IF Len(tokens) >= 2 THEN tokens[Len(tokens) - 1] ELSE ""
antepenultimate(tokens) ==
    IF Len(tokens) >= 3 THEN tokens[Len(tokens) - 2] ELSE ""

RECURSIVE openParens(_)
openParens(tokens) ==
    IF tokens = <<>> THEN 0
    ELSE openParens(SubSeq(tokens, 1, Len(tokens) - 1))
             + (CASE lastOf(tokens) = "(" -> 1
                  [] lastOf(tokens) = ")" -> -1
                  [] OTHER -> 0)

dirKeywordOccurrences(tokens) ==
    Cardinality({k \in 1..Len(tokens) :
                    tokens[k] \in {FilterKeywordDirection,
                                   FilterKeywordDirectionSugared}})

\* position (from 0) and token of the first top-level binary operator
firstTopLevelBinaryOp(tokens) ==
    LET found == {i \in 1..Len(tokens) :
                     /\ tokens[i] \in {"&", "|"}
                     /\ openParens(SubSeq(tokens, 1, i - 1)) = 0}
    IN  IF found = {} THEN [pos |-> -1, token |-> ""]
        ELSE LET i == CHOOSE x \in found : \A y \in found : x <= y
             IN  [pos |-> i - 1, token |-> tokens[i]]

Suggestion(sugg, accept) == [token |-> sugg, accept |-> accept]

AfterOperand(n) ==
    IF n > 0
    THEN {Suggestion(")", n = 1), Suggestion("&", FALSE),
          Suggestion("|", FALSE)}
    ELSE {Suggestion("&", FALSE), Suggestion("|", FALSE)}

nextAll(prevprev, prev, n) ==
    CASE prev \in {"", "(", "&", "|"} ->
             {Suggestion(t, FALSE) :
                 t \in {"!", "("} \cup IPAttributes \cup PortAttributes
                        \cup {FilterKeywordDirection,
                              FilterKeywordDirectionSugared}}
      [] prev = "!" ->
             {Suggestion(t, FALSE) :
                 t \in {"("} \cup IPAttributes \cup PortAttributes}
      [] prev \in IPAttributes ->
             {Suggestion("=", FALSE), Suggestion("!=", FALSE)}
      [] prev \in PortAttributes ->
             {Suggestion(t, FALSE) : t \in Comparators}
      [] prev \in {FilterKeywordDirection, FilterKeywordDirectionSugared} ->
             {Suggestion("=", FALSE)}
      [] prev \in Comparators ->
             (CASE prevprev = "proto" ->
                       {Suggestion(name, n = 0) : name \in IPProtocolIDs}
                [] prevprev \in {FilterKeywordDirection,
                                 FilterKeywordDirectionSugared} ->
                       {Suggestion(d, TRUE) : d \in DirectionFilters}
                [] OTHER -> {})
      [] prev = ")" -> AfterOperand(n)
      [] prev \in DirectionFilters -> {Suggestion("&", FALSE)}
      [] OTHER ->
             IF prevprev \in Comparators THEN AfterOperand(n) ELSE {}

\* (mutant) without the rule against an unnested disjunction
checkDirKeywordConstraints_OneAnd(sugg, prevprev, prev, nTokens, n, dirOccurrences, firstPos, firstOp) ==
    LET topLevelAnd == firstOp = "&" /\ firstPos = nTokens - 2
        topLevelAndOccurred == firstOp = "&" /\ firstPos <= nTokens - 2
        isDir == \/ Contains(sugg.token, FilterKeywordDirection)
                 \/ Contains(sugg.token, FilterKeywordDirectionSugared)
    IN  IF dirOccurrences > 1 THEN FALSE
        ELSE IF ~Contains(sugg.token, "directional") /\ isDir
                    /\ ~(prev = "" \/ (topLevelAnd /\ dirOccurrences = 0))
            THEN FALSE
        ELSE IF prevprev \in {FilterKeywordDirection,
                              FilterKeywordDirectionSugared}
                    /\ firstPos > 0 /\ firstOp # "&"
            THEN FALSE
        ELSE IF sugg.token = "&" /\ dirOccurrences > 0
                    /\ topLevelAndOccurred /\ n = 0
            THEN FALSE
        ELSE TRUE

checkDirKeywordConstraints(sugg, prevprev, prev, nTokens, n, dirOccurrences, firstPos, firstOp) ==
    LET topLevelAnd == firstOp = "&" /\ firstPos = nTokens - 2
        topLevelAndOccurred == firstOp = "&" /\ firstPos <= nTokens - 2
        isDir == \/ Contains(sugg.token, FilterKeywordDirection)
                 \/ Contains(sugg.token, FilterKeywordDirectionSugared)
    IN  IF dirOccurrences > 1 THEN FALSE
        ELSE IF ~Contains(sugg.token, "directional") /\ isDir
                    /\ ~(prev = "" \/ (topLevelAnd /\ dirOccurrences = 0))
            THEN FALSE
        ELSE IF prevprev \in {FilterKeywordDirection,
                              FilterKeywordDirectionSugared}
                    /\ firstPos > 0 /\ firstOp # "&"
            THEN FALSE
        ELSE IF sugg.token = "|" /\ dirOccurrences > 0 /\ n = 0 THEN FALSE
        ELSE IF sugg.token = "&" /\ dirOccurrences > 0
                    /\ topLevelAndOccurred /\ n = 0
            THEN FALSE
        ELSE TRUE

\* (mutant) every suggestion is taken for valid
verifySuggestion_Any(tokens, sugg, prevprev, prev, n, dirOccurrences) == TRUE

verifySuggestion(tokens, sugg, prevprev, prev, n, dirOccurrences) ==
    IF \/ Contains(sugg.token, FilterKeywordDirection)
       \/ Contains(sugg.token, FilterKeywordDirectionSugared)
       \/ dirOccurrences > 0
    THEN LET first == firstTopLevelBinaryOp(tokens)
         IN  checkDirKeywordConstraints(sugg, prevprev, prev, Len(tokens), n,
                                        dirOccurrences, first.pos,
                                        first.token)
    ELSE TRUE

\* strings.HasPrefix(token, prefix), for a token not yet begun
HasPrefix(token, prefix) == prefix = "" \/ prefix = token

\* next(tokens): the suggestions for the last token of tokens
next(tokens) ==
    LET prevprev == antepenultimate(tokens)
        prev == penultimate(tokens)
        n == openParens(tokens)
        occ == dirKeywordOccurrences(SubSeq(tokens, 1, Len(tokens) - 1))
    IN  {sugg \in nextAll(prevprev, prev, n) :
            /\ HasPrefix(sugg.token, lastOf(tokens))
            /\ verifySuggestion(tokens, sugg, prevprev, prev, n, occ)}

\* tokenize: the tokens of the condition and the token that is begun
tokenize(accepted) == Append(accepted, "")

\* the suggestions the user accepts: one of each kind of token
UserTokens ==
    {"!", "(", ")", "sip", "dport", "proto", "dir", "direction", "=", "<",
     "&", "|", "in", "bidirectional", "tcp"}

\* the user accepts a suggestion for the token that is begun
CompleteAccept(sugg) ==
    /\ Len(condition) < MaxTokens
    /\ sugg \in next(tokenize(condition))
    /\ condition' = Append(condition, sugg.token)
    /\ UNCHANGED <<gpfVars, dbVars, capVars, calc, dq, mp>>

\* there is no suggestion for the value of an address or a port: the user
\* types it
CompleteValue ==
    /\ Len(condition) < MaxTokens
    /\ lastOf(condition) \in Comparators
    /\ nextAll(penultimate(condition), lastOf(condition),
               openParens(condition)) = {}
    /\ condition' = Append(condition, "80")
    /\ UNCHANGED <<gpfVars, dbVars, capVars, calc, dq, mp>>

CompleteNext ==
    \/ \E t \in UserTokens, acc \in BOOLEAN :
           CompleteAccept(Suggestion(t, acc))
    \/ CompleteValue

(***************************************************************************)
(* MemPool and MemFile                                                     *)
(***************************************************************************)
Callers == 1..MaxCallers
Sizes == 0..MaxSize

\* a byte slice: its capacity and its length
Buffer(c, l) == [cap |-> c, len |-> l]

\* no pool yet.  elements: the buffered channel of the pool; n: its
\* capacity; held: the buffers each caller has got from Get; files: the
\* data of the MemFiles each caller has open; err: whether the last
\* NewMemFile returned an error
NoPool ==
    [live |-> FALSE, n |-> 0, elements |-> <<>>,
     held |-> [c \in Callers |-> <<>>],
     files |-> [c \in Callers |-> <<>>],
     err |-> FALSE]

\* NewMemPool(n): the channel of capacity n is filled with n empty slices
NewMemPool(n) ==
    [NoPool EXCEPT !.live = TRUE, !.n = n,
                   !.elements = [k \in 1..n |-> Buffer(0, 0)]]

\* (mutant) Get hands out the first element and leaves it in the channel
Get_Peek(elements, size) ==
    LET elem == Head(elements)
        fit == IF elem.cap < size THEN Buffer(size * 2, size * 2) ELSE elem
    IN  [elements |-> elements, elem |-> [fit EXCEPT !.len = size]]

\* MemPool.Get, once the receive from the channel has got an element: a
\* slice that is too small is replaced by a new one of twice the size
Get(elements, size) ==
    LET elem == Head(elements)
        fit == IF elem.cap < size THEN Buffer(size * 2, size * 2) ELSE elem
    IN  [elements |-> Tail(elements), elem |-> [fit EXCEPT !.len = size]]

\* MemPool.Put: the slice is reset to its capacity and sent to the channel
Put(elements, elem) == Append(elements, [elem EXCEPT !.len = elem.cap])

\* the sequence without its k-th element
Without(list, k) == SubSeq(list, 1, k - 1) \o SubSeq(list, k + 1, Len(list))

\* what can go wrong in a call of NewMemFile
MemFileFaults == {"none", "stat", "read", "close"}

\* NewMemFile(r, pool) for caller c, once pool.Get has got a buffer; size:
\* what r.Stat() reports.  After a failed Stat nothing is taken from the
\* pool, after a failed read nil is returned, and the file is returned
\* together with the error of r.Close()
NewMemFile(pool, c, size, fault) ==
    IF fault = "stat" THEN [pool EXCEPT !.err = TRUE]
    ELSE LET r == Get(pool.elements, size) IN
         IF fault = "read"
         THEN [pool EXCEPT !.elements = r.elements, !.err = TRUE]
         ELSE [pool EXCEPT !.elements = r.elements,
                           !.files[c] = Append(@, r.elem),
                           !.err = (fault = "close")]

\* NewMemPool(n)
MPNew(n) ==
    /\ ~mp.live
    /\ mp' = NewMemPool(n)
    /\ UNCHANGED <<gpfVars, dbVars, capVars, calc, dq, condition>>

\* caller c: pool.Get(size), which blocks while the channel is empty
MPGet(c, size) ==
    /\ mp.live
    /\ mp.elements # <<>>
    /\ \E r \in {Get(mp.elements, size)} :
          mp' = [mp EXCEPT !.elements = r.elements,
                           !.held[c] = Append(@, r.elem)]
    /\ UNCHANGED <<gpfVars, dbVars, capVars, calc, dq, condition>>

\* caller c: pool.Put of the k-th buffer it holds; the send blocks while
\* the channel is full
MPPut(c, k) ==
    /\ mp.live
    /\ k \in 1..Len(mp.held[c])
    /\ Len(mp.elements) < mp.n
    /\ mp' = [mp EXCEPT !.elements = Put(@, mp.held[c][k]),
                        !.held[c] = Without(@, k)]
    /\ UNCHANGED <<gpfVars, dbVars, capVars, calc, dq, condition>>

\* caller c: NewMemFile on a file of the given size; past a successful
\* Stat the call blocks in pool.Get while the channel is empty
MFNew(c, size, fault) ==
    /\ mp.live
    /\ fault = "stat" \/ mp.elements # <<>>
    /\ mp' = NewMemFile(mp, c, size, fault)
    /\ UNCHANGED <<gpfVars, dbVars, capVars, calc, dq, condition>>

\* caller c: Close of the k-th MemFile it has open
MFClose(c, k) ==
    /\ mp.live
    /\ k \in 1..Len(mp.files[c])
    /\ Len(mp.elements) < mp.n
    /\ mp' = [mp EXCEPT !.elements = Put(@, mp.files[c][k]),
                        !.files[c] = Without(@, k),
                        !.err = FALSE]
    /\ UNCHANGED <<gpfVars, dbVars, capVars, calc, dq, condition>>

MPNext ==
    \/ \E n \in 0..MaxPool : MPNew(n)
    \/ \E c \in Callers, size \in Sizes : MPGet(c, size)
    \/ \E c \in Callers, k \in 1..MaxPool : MPPut(c, k)

MFNext ==
    \/ \E n \in 0..MaxPool : MPNew(n)
    \/ \E c \in Callers, size \in Sizes, fault \in MemFileFaults :
           MFNew(c, size, fault)
    \/ \E c \in Callers, k \in 1..MaxPool : MFClose(c, k)

(***************************************************************************)
(* Specifications                                                          *)
(***************************************************************************)
\* a new block file, a new DB directory with its writer, a new Capture
Init ==
    /\ dataFile = NoFile
    /\ metaFile = NoFile
    /\ g = NoHandle
    /\ ret = NoRet
    /\ hist = InitHist
    /\ db = NoDB
    /\ \E enc \in EncoderTypes : dbw = NewDBWriter(enc)
    /\ wret = NoWRet
    /\ whist = InitWHist
    /\ capture = newMockCapture
    /\ handed = <<>>
    /\ observed = NoneObserved
    /\ calc = NoCalc
    /\ dq = NoQuery
    /\ condition = <<>>
    /\ mp = NoPool

\* the same, the writer being configured with the default encoder
InitLZ4 == Init /\ dbw.encoderType = EncoderTypeLZ4

\* the block file on its own
Spec == InitLZ4 /\ [][GPNext]_vars

\* the block file and the table analyze-meta prints of it
MetaTableNext == GPNext \/ GPPrintMetaTable
SpecMetaTable == InitLZ4 /\ [][MetaTableNext]_vars

\* the DB writer over the column files of the day directories
SpecDB == Init /\ [][DBNext]_vars

\* packet ingestion and rotation on one interface
SpecCapture == InitLZ4 /\ [][CapNext]_vars

\* the same under fair scheduling of the capture thread and the writer
SpecCaptureLive == InitLZ4 /\ [][CapNext]_vars /\ CapFairness

\* the functions of the write path, each applied to any input
SpecCalc == InitLZ4 /\ [][CalcNext]_vars

\* one distributed query
SpecQuery == InitLZ4 /\ [][DQNext]_vars

\* the same under fair scheduling of its goroutines
SpecQueryLive == InitLZ4 /\ [][DQLiveNext]_vars /\ DQFairness

\* a condition completed token by token
SpecComplete == InitLZ4 /\ [][CompleteNext]_vars

\* callers of Get and Put on one memory pool
SpecPool == InitLZ4 /\ [][MPNext]_vars

\* callers of NewMemFile and Close on one memory pool
SpecMemFile == InitLZ4 /\ [][MFNext]_vars

(***************************************************************************)
(* Properties of the block file                                            *)
(***************************************************************************)
RECURSIVE SumLen(_, _)
SumLen(blocks, todo) ==
    IF todo = {} THEN 0
    ELSE LET t == CHOOSE x \in todo : TRUE
         IN  blocks[t].Len + SumLen(blocks, todo \ {t})

OnlySuccessfulWrites ==
    /\ g.live /\ g.accessMode = ModeWrite
    /\ hist.faults = {}

\* C1: after any sequence of successful WriteBlock calls on a file opened in
\* write mode, header.CurrentOffset is the sum of Len over header.Blocks and
\* the physical size of the data file.
C1_OffsetIsSumAndSize ==
    OnlySuccessfulWrites =>
        /\ g.header.CurrentOffset = SumLen(g.header.Blocks, DOMAIN g.header.Blocks)
        /\ g.header.CurrentOffset = Len(dataFile.content)

\* the same, for timestamps that are written once (diagnosis of C1)
C1_DistinctTimestamps ==
    (OnlySuccessfulWrites /\ ~hist.dupTs) =>
        /\ g.header.CurrentOffset = SumLen(g.header.Blocks, DOMAIN g.header.Blocks)
        /\ g.header.CurrentOffset = Len(dataFile.content)

\* C2: a file written by successful WriteBlock calls with distinct timestamps
\* gives back, through ReadBlock in read mode and in any order, exactly the
\* bytes written for each timestamp.
C2_BlockRoundtrip ==
    ( /\ ret.op = "ReadBlock"
      /\ g.accessMode = ModeRead
      /\ hist.faults = {} /\ ~hist.dupTs /\ ~hist.rdFault
      /\ ret.ts \in DOMAIN hist.wrote )
    => (~ret.err /\ ret.data = hist.wrote[ret.ts])

\* a non-empty block that does not start the file was read back after the
\* decoder had to be switched and the file had been read further on
C2_Witness ==
    /\ ret.op = "ReadBlock" /\ ~ret.err /\ Len(ret.data) > 0
    /\ hist.faults = {} /\ ~hist.dupTs /\ ~hist.rdFault
    /\ Cardinality(DOMAIN hist.wrote) >= 2
    /\ g.header.Blocks[ret.ts].EncoderType # g.defaultEncoderType
    /\ \E t \in DOMAIN g.header.Blocks :
           g.header.Blocks[t].Offset > g.header.Blocks[ret.ts].Offset

\* C6: a block recorded for a timestamp is never changed by a later call.
C6_BlockNeverMutated ==
    [][(g.live /\ g'.live) =>
         \A t \in DOMAIN g.header.Blocks :
             /\ t \in DOMAIN g'.header.Blocks
             /\ g'.header.Blocks[t] = g.header.Blocks[t]]_vars

SidecarHeader == Unmarshal(metaFile.content)

\* C7: every block listed in the persisted sidecar has its full payload in
\* the data file at [Offset, Offset+Len).
C7_SidecarBlocksHavePayload ==
    (metaFile.exists /\ WellFormed(metaFile.content)) =>
        \A t \in DOMAIN SidecarHeader.Blocks :
            LET b == SidecarHeader.Blocks[t] IN
            b.Len > 0 => <<t, b.Offset, b.Len>> \in hist.appends

\* C8: the sidecar on disk is always the complete previous header or the
\* complete new one.
C8_SidecarRewriteAtomic ==
    [][\/ metaFile' = metaFile
       \/ /\ metaFile'.exists
          /\ metaFile'.content = Marshal(g'.header)]_vars

\* C9: after a WriteBlock whose append succeeded and whose fsync or header
\* write failed, every block recorded by a later WriteBlock has the Offset
\* at which its payload physically starts.
C9_OffsetIsPhysicalStart ==
    ( /\ hist.orphaned
      /\ hist.faults \subseteq {"sync", "hdrOpen", "hdrTrunc", "hdrPart"}
      /\ ret.op = "WriteBlock" /\ ~ret.err /\ Len(ret.data) > 0 )
    => g.header.Blocks[ret.ts].Offset = ret.start

\* C10: ReadBlock in write mode and WriteBlock in read mode return an error
\* and change neither the GPFile (header, tracked offset) nor the files.
C10_ModeMixFails ==
    [][(\/ /\ g.accessMode = ModeWrite
           /\ \E ts \in Timestamps, f \in ReadFaults : GPReadBlock(ts, f)
        \/ /\ g.accessMode = ModeRead
           /\ \E ts \in Timestamps, d \in BlockData, f \in WriteFaults :
                  GPWriteBlock(ts, d, f))
       => (ret'.err /\ g' = g /\ dataFile' = dataFile /\ metaFile' = metaFile)]_vars

\* WriteBlock was refused on a read-mode file that holds blocks
C10_Witness ==
    /\ ret.op = "WriteBlock" /\ ret.err
    /\ g.live /\ g.accessMode = ModeRead
    /\ DOMAIN g.header.Blocks # {}
    /\ Len(dataFile.content) > 0

\* C11: opening a block file without sidecar fails in read mode and, in
\* write mode, gives a header of version 1 with no block and offset 0.
C11_MissingSidecar ==
    [][\A m \in AccessModes, e \in EncoderTypes :
          (~metaFile.exists /\ GPNew(m, e, "none")) =>
              IF m = ModeRead
              THEN ret'.err /\ ~g'.live
              ELSE /\ ~ret'.err
                   /\ g'.live
                   /\ g'.header.Version = 1
                   /\ DOMAIN g'.header.Blocks = {}
                   /\ g'.header.CurrentOffset = 0]_vars

\* a file was opened for reading without its sidecar, after data had been
\* appended to it
C11_Witness ==
    /\ ret.op = "New" /\ ret.err /\ ret.fault = "none"
    /\ ~g.live
    /\ ~metaFile.exists
    /\ dataFile.exists

\* C12: WriteBlock with empty data records {Offset = CurrentOffset, Len = 0,
\* RawLen = 0, the default encoder} and writes the header; CurrentOffset
\* and the data file stay as they are and the data file is not opened.
C12_EmptyBlock ==
    [][\A ts \in Timestamps, f \in WriteFaults :
          (g.accessMode = ModeWrite /\ GPWriteBlock(ts, <<>>, f)) =>
              /\ g'.header.Blocks[ts] =
                     [Offset |-> g.header.CurrentOffset, Len |-> 0,
                      RawLen |-> 0, EncoderType |-> g.defaultEncoderType]
              /\ g'.header.CurrentOffset = g.header.CurrentOffset
              /\ dataFile' = dataFile
              /\ g'.file = g.file
              /\ f = "none" =>
                     /\ ~ret'.err
                     /\ metaFile'.exists
                     /\ metaFile'.content = Marshal(g'.header)]_vars

\* an empty block was written behind a block with data, by a GPFile that
\* has not opened the data file
C12_Witness ==
    /\ ret.op = "WriteBlock" /\ ~ret.err /\ ret.data = <<>>
    /\ g.live /\ ~g.file
    /\ g.header.CurrentOffset > 0
    /\ g.header.Blocks[ret.ts].Offset = g.header.CurrentOffset
    /\ metaFile.content = Marshal(g.header)


\* C27: on a read-mode handle with an open data file, the tracked offset
\* lastSeekPos is the read position of the file descriptor after any
\* sequence of ReadBlock calls, successful or failed.
C27_SeekPosIsFilePosition ==
    (g.live /\ g.accessMode = ModeRead /\ g.file) => g.lastSeekPos = g.pos

(***************************************************************************)
(* Properties of the DB writer                                             *)
(***************************************************************************)
\* block timestamps in the header of a column file
ColumnTimestamps(col) ==
    IF col.meta.exists /\ WellFormed(col.meta.content)
    THEN DOMAIN Unmarshal(col.meta.content).Blocks
    ELSE {}

MetaTimestamps(mj) == {mj.blocks[k].Timestamp : k \in 1..Len(mj.blocks)}

\* C4: a Write that fails while writing one of the eight column blocks
\* appends nothing to meta.json, and meta.json only gets entries whose
\* timestamp has its block in all eight column files.
C4_MetadataOnlyAfterAllColumns ==
    [][\A d \in Days :
          /\ wret'.struck /\ whist'.writes # whist.writes
                 => db'[d].metaJson = db[d].metaJson
          /\ db'[d].metaJson # db[d].metaJson
                 => \A t \in MetaTimestamps(db'[d].metaJson) :
                        /\ t \in whist'.colsOK
                        /\ \A i \in Columns :
                               t \in ColumnTimestamps(db'[d].cols[i])]_vars

\* a Write failed after it had written some columns of its timestamp, on a
\* day whose meta.json lists an earlier interval; meta.json has no entry for it
C4_Witness ==
    /\ wret.op = "Write" /\ wret.err /\ wret.struck
    /\ LET day == db[DayTimestamp(wret.ts)] IN
        /\ wret.ts \in ColumnTimestamps(day.cols[SipColIdx])
        /\ wret.ts \notin ColumnTimestamps(day.cols[PacketsSentColIdx])
        /\ day.metaJson.exists
        /\ MetaTimestamps(day.metaJson) # {}
        /\ wret.ts \notin MetaTimestamps(day.metaJson)

SameTimestampsInAllColumns ==
    \A d \in Days : \A i, j \in Columns :
        ColumnTimestamps(db[d].cols[i]) = ColumnTimestamps(db[d].cols[j])

C15_MetadataCountsFromFlows ==
    (wret.op = "Write" /\ ~wret.err) =>
        LET blocks == db[DayTimestamp(wret.ts)].metaJson.blocks
            last == blocks[Len(blocks)]
        IN  /\ Len(blocks) > 0
            /\ last.Timestamp = wret.ts
            /\ last.FlowCount = wret.nflows
            /\ last.Traffic = wret.traffic

\* a map with an IPv4 and an IPv6 flow was written behind an earlier
\* interval; the counts handed in by the caller were different
C15_Witness ==
    /\ wret.op = "Write" /\ ~wret.err
    /\ wret.nflows = 2 /\ wret.traffic > 0
    /\ \A cm \in CallerCounts : cm # wret.nflows /\ cm # wret.traffic
    /\ Len(db[DayTimestamp(wret.ts)].metaJson.blocks) >= 2

\* sum of f over the elements of hs
RECURSIVE SumOver(_, _)
SumOver(hs, f) ==
    IF hs = {} THEN 0
    ELSE LET h == CHOOSE x \in hs : TRUE IN f[h] + SumOver(hs \ {h}, f)

\* a Write call has returned without error, no call before it having failed
SuccessfulWriteStep ==
    /\ whist'.writes = whist.writes + 1
    /\ whist'.nfaults = 0
    /\ ~wret'.err

\* the successful Write appended one entry for its interval to the
\* meta.json of its day and left the meta.json of every other day alone
AppendsOwnEntry ==
    LET day == DayTimestamp(wret'.ts)
        was == db[day].metaJson.blocks
        now == db'[day].metaJson.blocks
    IN  /\ db'[day].metaJson.exists
        /\ Len(now) = Len(was) + 1
        /\ SubSeq(now, 1, Len(was)) = was
        /\ now[Len(now)].Timestamp = wret'.ts
        /\ \A d \in Days \ {day} : db'[d].metaJson = db[d].metaJson

\* C29: after any sequence of successful Write calls of DBWriter instances
\* for one interface, over several days and writer restarts, the meta.json
\* of each day lists one BlockMetadata per interval written for that day, in
\* write order, none of another day and no persisted entry lost: every
\* successful Write appends the entry of its interval to the meta.json of
\* its day and changes no other.
C29_MetaJsonComplete == [][SuccessfulWriteStep => AppendsOwnEntry]_vars

\* for the days after the epoch day the meta.json files are complete
C29_CompleteAfterEpochDay ==
    [][(SuccessfulWriteStep /\ DayTimestamp(wret'.ts) # 0)
           => AppendsOwnEntry]_vars

\* the number of entries for timestamp ts in the meta.json files of d
EntriesFor(d, ts) ==
    LET n(day) == Cardinality({k \in 1..Len(d[day].metaJson.blocks) :
                                  d[day].metaJson.blocks[k].Timestamp = ts})
    IN  SumOver(Days, [day \in Days |-> n(day)])

\* the Write call for T1 has failed and the next call, for another interval
\* T2, returns without error
WriteAfterFailedWrite ==
    /\ wret.op = "Write" /\ wret.err
    /\ whist'.writes = whist.writes + 1
    /\ ~wret'.err
    /\ wret'.ts # wret.ts

\* C30: a failed Write for interval T1, whatever step failed, does not
\* affect the next interval: the successful Write for T2 that follows puts
\* the entry for T2 into the day's meta.json and no entry for T1.
C30_FailedWriteLeavesNoEntry ==
    [][WriteAfterFailedWrite =>
          /\ EntriesFor(db', wret'.ts) = EntriesFor(db, wret'.ts) + 1
          /\ EntriesFor(db', wret.ts) = EntriesFor(db, wret.ts)]_vars

(***************************************************************************)
(* Properties of the functions of the write path                           *)
(***************************************************************************)
\* the bytes of a key in the order (sip, dip, dport, proto)
KeyBytes(f) == f.sip \o f.dip \o f.dport \o <<f.proto>>

\* a is not behind b in the byte-lexicographic order (equal lengths)
LexLE(a, b) ==
    \/ a = b
    \/ \E k \in 1..Len(a) :
          /\ \A m \in 1..(k - 1) : a[m] = b[m]
          /\ a[k] < b[k]

NonDecreasing(keys) ==
    \A k \in 1..(Len(keys) - 1) : LexLE(keys[k], keys[k + 1])

\* row k of the attribute columns of a block with n4 IPv4 rows: IPv4
\* addresses take 4 bytes, IPv6 addresses 16
RowKey(cols, n4, k) ==
    LET ipAt == IF k <= n4 THEN 4 * (k - 1) ELSE 4 * n4 + 16 * (k - n4 - 1)
        ipLen == IF k <= n4 THEN 4 ELSE 16
    IN  [sip |-> SubSeq(cols[SipColIdx], ipAt + 1, ipAt + ipLen),
         dip |-> SubSeq(cols[DipColIdx], ipAt + 1, ipAt + ipLen),
         dport |-> SubSeq(cols[DportColIdx], 2 * k - 1, 2 * k),
         proto |-> cols[ProtoColIdx][k]]

KeyOf(f) == [sip |-> f.sip, dip |-> f.dip, dport |-> f.dport, proto |-> f.proto]

\* C13: Sort returns its entries non-decreasing in the byte-lexicographic
\* order of (sip, dip, dport, proto), proto being an unsigned byte, and
\* dbData emits the rows of each address family in that order.
C13_SortedRows ==
    /\ calc.op = "Sort" =>
          /\ Len(calc.sorted) = Len(calc.list)
          /\ \A x \in {calc.list[k] : k \in 1..Len(calc.list)} :
                 Cardinality({k \in 1..Len(calc.list) : calc.list[k] = x})
                     = Cardinality({k \in 1..Len(calc.sorted) :
                                        calc.sorted[k] = x})
          /\ NonDecreasing([k \in 1..Len(calc.sorted) |->
                               KeyBytes(calc.sorted[k])])
    /\ calc.op = "dbData" =>
          LET n4 == Len(calc.v4)
              n6 == Len(calc.v6)
              row(k) == KeyBytes(RowKey(calc.data.cols, n4, k))
          IN  /\ NonDecreasing([k \in 1..n4 |-> row(k)])
              /\ NonDecreasing([k \in 1..n6 |-> row(n4 + k)])

\* a list that was not in order, with a protocol above 127 in front of a
\* smaller one, has been sorted
C13_Witness ==
    /\ calc.op = "Sort"
    /\ Len(calc.list) = MaxFlows
    /\ calc.sorted # calc.list
    /\ \E i, j \in 1..Len(calc.list) :
          /\ i < j
          /\ calc.list[i].proto >= 128
          /\ calc.list[j].proto < 128
          /\ calc.list[i].sip = calc.list[j].sip
          /\ calc.list[i].dip = calc.list[j].dip
          /\ calc.list[i].dport = calc.list[j].dport

\* C14: the bytes_rcvd payload of dbData is the number of IPv4 flows as an
\* 8-byte big-endian integer followed by the packed counters, and in every
\* column the IPv4 rows come first: the first v4-count rows are the IPv4
\* flows, the others the IPv6 flows.
C14_V4CountPrefix ==
    calc.op = "dbData" =>
        LET n4 == Len(calc.v4)
            n6 == Len(calc.v6)
            cols == calc.data.cols
            col == cols[BytesRcvdColIdx]
            flowOf(k) ==
                CHOOSE f \in {calc.v4[i] : i \in 1..n4}
                              \cup {calc.v6[i] : i \in 1..n6} :
                    KeyOf(f) = RowKey(cols, n4, k)
        IN  /\ Len(col) >= 8
            /\ \A k \in 1..7 : col[k] = 0
            /\ col[8] = n4
            /\ Len(cols[SipColIdx]) = 4 * n4 + 16 * n6
            /\ Len(cols[DipColIdx]) = 4 * n4 + 16 * n6
            /\ {RowKey(cols, n4, k) : k \in 1..n4}
                   = {KeyOf(calc.v4[i]) : i \in 1..n4}
            /\ {RowKey(cols, n4, n4 + k) : k \in 1..n6}
                   = {KeyOf(calc.v6[i]) : i \in 1..n6}
            /\ SubSeq(col, 9, Len(col))
                   = Pack([k \in 1..(n4 + n6) |-> flowOf(k).NBytesRcvd])
            /\ cols[BytesSentColIdx]
                   = Pack([k \in 1..(n4 + n6) |-> flowOf(k).NBytesSent])

\* a map with flows of both address families, handed over with an IPv6
\* flow's table filled and the IPv4 flows out of order
C14_Witness ==
    /\ calc.op = "dbData"
    /\ Len(calc.v4) = MaxMapFlows
    /\ Len(calc.v6) >= 1
    /\ Sort(calc.v4) # calc.v4
    /\ calc.data.cols[BytesRcvdColIdx][8] = MaxMapFlows

\* the counters of a packed column
Unpack(col) ==
    IF col[1] = 0 THEN [k \in 1..col[2] |-> 0] ELSE SubSeq(col, 6, Len(col))

\* row k of the eight columns of a block with n4 IPv4 rows
Row(cols, n4, k) ==
    LET key == RowKey(cols, n4, k)
        rcvd == cols[BytesRcvdColIdx]
    IN  [sip |-> key.sip, dip |-> key.dip, dport |-> key.dport,
         proto |-> key.proto,
         NBytesRcvd |-> Unpack(SubSeq(rcvd, 9, Len(rcvd)))[k],
         NBytesSent |-> Unpack(cols[BytesSentColIdx])[k],
         NPktsRcvd |-> Unpack(cols[PacketsRcvdColIdx])[k],
         NPktsSent |-> Unpack(cols[PacketsSentColIdx])[k]]

RowOf(f) ==
    [sip |-> f.sip, dip |-> f.dip, dport |-> f.dport, proto |-> f.proto,
     NBytesRcvd |-> f.NBytesRcvd, NBytesSent |-> f.NBytesSent,
     NPktsRcvd |-> f.NPktsRcvd, NPktsSent |-> f.NPktsSent]

\* C28: for a map of n4 IPv4 and n6 IPv6 flows dbData gives sip and dip
\* columns of 4*n4 + 16*n6 bytes, a dport column of 2*(n4+n6) bytes, a proto
\* column of n4+n6 bytes and four counter sequences of n4+n6 values; the
\* i-th entries of the eight columns are the attributes and counters of one
\* flow, and every flow of the map is in exactly one row.
C28_ColumnsAligned ==
    calc.op = "dbData" =>
        LET n4 == Len(calc.v4)
            n6 == Len(calc.v6)
            n == n4 + n6
            cols == calc.data.cols
            rcvd == cols[BytesRcvdColIdx]
            flows == {RowOf(calc.v4[i]) : i \in 1..n4}
                         \cup {RowOf(calc.v6[i]) : i \in 1..n6}
        IN  /\ Len(cols[SipColIdx]) = 4 * n4 + 16 * n6
            /\ Len(cols[DipColIdx]) = 4 * n4 + 16 * n6
            /\ Len(cols[DportColIdx]) = 2 * n
            /\ Len(cols[ProtoColIdx]) = n
            /\ Len(Unpack(SubSeq(rcvd, 9, Len(rcvd)))) = n
            /\ Len(Unpack(cols[BytesSentColIdx])) = n
            /\ Len(Unpack(cols[PacketsRcvdColIdx])) = n
            /\ Len(Unpack(cols[PacketsSentColIdx])) = n
            /\ \A k \in 1..n : Row(cols, n4, k) \in flows
            /\ \A f \in flows :
                   Cardinality({k \in 1..n : Row(cols, n4, k) = f}) = 1

\* a map with flows of both address families whose IPv4 flows differ in
\* their counters and were flattened out of order
C28_Witness ==
    /\ calc.op = "dbData"
    /\ Len(calc.v4) = MaxMapFlows
    /\ Len(calc.v6) >= 1
    /\ Sort(calc.v4) # calc.v4
    /\ \E i, j \in 1..Len(calc.v4) :
           calc.v4[i].NBytesRcvd # calc.v4[j].NBytesRcvd

\* the flows of the blocks in the time range of the query that fulfil its
\* condition, <<timestamp, index>> each
Matching ==
    LET first == DecimalValue(calc.args.First)
        last == DecimalValue(calc.args.Last)
        cond == calc.args.Condition
        holds(f) ==
            \A k \in 1..Len(cond) :
                \/ cond[k] \in {"&", "and"}
                \/ cond[k] = "dport=80" /\ f.dport = <<0, 80>>
                \/ cond[k] = "dport<100" /\ f.dport[1] = 0 /\ f.dport[2] < 100
                \/ cond[k] = "dport>100"
                       /\ (f.dport[1] > 0 \/ f.dport[2] > 100)
    IN  {x \in (DOMAIN calc.blocks) \X (1..2) :
            /\ first <= x[1] /\ x[1] <= last
            /\ x[2] <= Len(calc.blocks[x[1]])
            /\ holds(calc.blocks[x[1]][x[2]])}

ValidQuery == calc.op = "Run" /\ calc.args.Query # <<"bogus">>

\* C26: a query over an existing database whose condition matches no flow,
\* or whose time range contains no block, returns no error and a result
\* with the status empty and no rows.
C26_EmptyResult ==
    (ValidQuery /\ Matching = {}) =>
        /\ calc.res.err = NilErr
        /\ calc.res.Status = StatusEmpty
        /\ DOMAIN calc.res.Rows = {}
        /\ calc.res.Displayed = 0

\* a database with flows in the time range, none of which fulfils the
\* condition of the query
C26_Witness ==
    /\ ValidQuery
    /\ Matching = {}
    /\ calc.args.Condition # <<>>
    /\ \E ts \in DOMAIN calc.blocks :
           ts <= DecimalValue(calc.args.Last) /\ calc.blocks[ts] # <<>>
    /\ calc.res.Status = StatusEmpty

\* Prepare has returned a statement for a query type with the time attribute
TimeStatement ==
    /\ calc.op = "Prepare"
    /\ calc.res.err = NilErr
    /\ ContainsName(calc.args.Query, "time")

\* C23: for a query type with the time attribute Prepare returns a statement
\* with SortBy = time, SortAscending = true and NumResults = MaxResults,
\* whatever sort_by, sort_ascending and num_results are.
C23_TimeQueryUntruncated ==
    TimeStatement =>
        /\ calc.res.s.SortBy = SortTime
        /\ calc.res.s.SortAscending
        /\ calc.res.s.NumResults = MaxResults

\* the sort order of a time statement is overridden
C23_TimeQuerySorted ==
    TimeStatement =>
        /\ calc.res.s.SortBy = SortTime
        /\ calc.res.s.SortAscending

\* Prepare has returned a statement and no error
Prepared == calc.op = "Prepare" /\ calc.res.err = NilErr

\* the interface argument names more than one interface or contains any
SeveralIfaces ==
    Len(calc.args.Ifaces) > 1 \/ ContainsName(calc.args.Ifaces, "any")

\* C35: Prepare sets LabelSelector.Iface whenever the query type does not
\* contain iface and the interface argument names more than one interface
\* or contains any; for a single named interface the selector is the one
\* parsed from the query type.
C35_IfaceSelector ==
    Prepared =>
        /\ (SeveralIfaces /\ ~ContainsName(calc.args.Query, "iface"))
               => calc.res.s.LabelSelector.Iface
        /\ ~SeveralIfaces
               => calc.res.s.LabelSelector.Iface
                      = ContainsName(calc.args.Query, "iface")

\* the selector is set for the interface argument any (diagnosis of C35)
C35_IfaceSelectorForAny ==
    Prepared =>
        /\ (ContainsName(calc.args.Ifaces, "any")
                /\ ~ContainsName(calc.args.Query, "iface"))
               => calc.res.s.LabelSelector.Iface
        /\ ~SeveralIfaces
               => calc.res.s.LabelSelector.Iface
                      = ContainsName(calc.args.Query, "iface")

\* C37: Prepare derives the direction from the flags: sum if Sum is set, or
\* if External is set with both In and Out; in if In and not Out; out if Out
\* and not In; both otherwise.
C37_DirectionPolicy ==
    Prepared =>
        LET a == calc.args
            d == calc.res.s.Direction
        IN  IF a.Sum \/ (a.External /\ a.In /\ a.Out) THEN d = DirectionSum
            ELSE IF a.In /\ ~a.Out THEN d = DirectionIn
            ELSE IF a.Out /\ ~a.In THEN d = DirectionOut
            ELSE d = DirectionBoth

\* Prepare has derived sum for an external query with In and Out and
\* without Sum
C37_Witness ==
    /\ Prepared
    /\ calc.args.External /\ calc.args.In /\ calc.args.Out /\ ~calc.args.Sum
    /\ calc.res.s.Direction = DirectionSum

\* C16: DayTimestamp(t) is a multiple of 86400, at most t and less than
\* 86400 below t, for negative t as well.
C16_DayTimestampFloors ==
    calc.op = "DayTimestamp" =>
        /\ calc.day % 86400 = 0
        /\ calc.day <= calc.timestamp
        /\ calc.timestamp - calc.day < 86400

\* the same for the timestamps from the epoch on (diagnosis of C16)
C16_FloorsFromEpoch ==
    (calc.op = "DayTimestamp" /\ calc.timestamp >= 0) =>
        /\ calc.day % 86400 = 0
        /\ calc.day <= calc.timestamp
        /\ calc.timestamp - calc.day < 86400


(***************************************************************************)
(* Properties of the distributed query                                     *)
(***************************************************************************)
Running == {w \in DOMAIN dq.workers : dq.workers[w].pc = "run"}

\* C18: at most numRunners per-host queries execute at a time, numRunners
\* being maxConcurrent if that is positive and the number of hosts otherwise.
C18_BoundedConcurrency ==
    Cardinality(Running)
        <= (IF dq.maxConcurrent > 0 THEN dq.maxConcurrent ELSE dq.nHosts)

\* with maxConcurrent below the number of hosts, as many queries execute as
\* maxConcurrent allows while the workload of a further host waits
C18_Witness ==
    /\ dq.maxConcurrent > 0
    /\ dq.maxConcurrent < dq.nHosts
    /\ Cardinality(Running) = dq.maxConcurrent
    /\ dq.next <= dq.nHosts

\* the hosts whose run returned an error / a result
Failed == {h \in DOMAIN dq.resp : dq.resp[h].err # NilErr}
Succeeded == {h \in DOMAIN dq.resp : dq.resp[h].err = NilErr}

\* C19: if a per-host run returns an error, Run still returns a result and
\* no error; the failing host has a HostsStatuses entry with code error and
\* the unwrapped message, and the rows of the other hosts are merged.
\* (Stated for every return of Run after per-host runs have returned.)
C19_HostErrorBecomesStatus ==
    (dq.pc = "returned" /\ ~dq.ctxDone /\ DOMAIN dq.resp # {}) =>
        /\ dq.retErr = NilErr
        /\ \A h \in Failed :
              /\ h \in DOMAIN dq.final.HostsStatuses
              /\ dq.final.HostsStatuses[h]
                     = [Code |-> "error", Message |-> dq.resp[h].err]
        /\ \A h \in Succeeded :
              /\ h \in DOMAIN dq.final.HostsStatuses
              /\ dq.final.HostsStatuses[h].Code # "error"
        /\ \A k \in 1..MaxKeys :
              LET n == Cardinality({h \in Succeeded :
                                       k \in DOMAIN dq.resp[h].result.Rows})
              IN  IF n = 0 THEN k \notin DOMAIN dq.final.Rows
                  ELSE k \in DOMAIN dq.final.Rows /\ dq.final.Rows[k] = n

\* Run has returned after the run of one host failed and another host's
\* rows were merged
C19_Witness ==
    /\ dq.pc = "returned" /\ ~dq.ctxDone
    /\ Failed # {}
    /\ Succeeded # {}
    /\ DOMAIN dq.final.Rows # {}

HostRows == [h \in Succeeded |-> Cardinality(DOMAIN dq.resp[h].result.Rows)]
HostHits == [h \in Succeeded |-> dq.resp[h].result.HitsTotal]
HostTotals == [h \in Succeeded |-> dq.resp[h].result.Totals]
\* per host, the sum of the counters of its rows
HostCounters ==
    [h \in Succeeded |->
        SumOver(DOMAIN dq.resp[h].result.Rows, dq.resp[h].result.Rows)]

AllAggregated ==
    /\ dq.pc = "returned" /\ ~dq.ctxDone
    /\ DOMAIN dq.resp = 1..dq.nHosts

\* C21: after all responses are aggregated, Hits.Total is the sum of the
\* hosts' Hits.Total minus the number of rows merged into a key already
\* present; if every host's Hits.Total is its row count, Hits.Total is the
\* number of distinct keys of the merged rows.
C21_HitsDeductMerged ==
    AllAggregated =>
        LET distinct == Cardinality(DOMAIN dq.final.Rows)
            merged == SumOver(Succeeded, HostRows) - distinct
        IN  /\ dq.final.HitsTotal = SumOver(Succeeded, HostHits) - merged
            /\ (\A h \in Succeeded : HostHits[h] = HostRows[h])
                   => dq.final.HitsTotal = distinct

\* two hosts returned rows with a common key, one of them having counted
\* more hits than it returned rows
C21_Witness ==
    /\ AllAggregated
    /\ Cardinality(Succeeded) >= 2
    /\ SumOver(Succeeded, HostRows) > Cardinality(DOMAIN dq.final.Rows)
    /\ \E h \in Succeeded : HostHits[h] > HostRows[h]

\* C22: merging conserves the counters: the sum over the merged rows is the
\* sum over all rows of all hosts, and Summary.Totals is the sum of the
\* hosts' Summary.Totals.
C22_CountersConserved ==
    AllAggregated =>
        /\ SumOver(DOMAIN dq.final.Rows, dq.final.Rows)
               = SumOver(Succeeded, HostCounters)
        /\ dq.final.Totals = SumOver(Succeeded, HostTotals)

\* two hosts returned rows, a key of the one being a key of the other
C22_Witness ==
    /\ AllAggregated
    /\ Cardinality(Succeeded) >= 2
    /\ \E k \in DOMAIN dq.final.Rows : dq.final.Rows[k] >= 2
    /\ \E k \in DOMAIN dq.final.Rows : dq.final.Rows[k] = 1

\* the arguments are not valid: what Prepare and Run have to reject
InvalidArgs(a) ==
    \/ a.Format \notin {"txt", "json", "csv", "influxdb"}
    \/ a.SortBy \notin {"", "bytes", "packets", "time"}
    \/ a.Query = <<>>
    \/ \E k \in 1..Len(a.Query) : a.Query[k] \notin Attributes
    \/ \E k \in 1..Len(a.First) : a.First[k] \notin 0..9
    \/ \E k \in 1..Len(a.Last) : a.Last[k] \notin 0..9
    \/ a.MaxMemPct < 1 \/ a.MaxMemPct > 100
    \/ a.NumResults <= 0
    \/ (a.Live /\ a.Last # maxTimeStr)
    \/ a.QueryHosts = <<>>

\* C24: with invalid arguments (unknown format or sort key, unparsable
\* query type or time range, MaxMemPct outside 1..100, NumResults <= 0, live
\* with a bounded last, empty host list) Run returns an error before any
\* host is resolved and before any workload is created or run.
C24_InvalidArgsRejectedEarly ==
    (dq.pc # "idle" /\ InvalidArgs(dq.args)) =>
        /\ dq.pc = "returned"
        /\ dq.retErr # NilErr
        /\ ~dq.resolved
        /\ dq.next = 1
        /\ DOMAIN dq.workers = {}
        /\ DOMAIN dq.resp = {}

\* Run has rejected a live query with a bounded time range, the last of
\* the checks of Prepare
C24_Witness ==
    /\ dq.pc = "returned"
    /\ dq.args.Live
    /\ dq.args.QueryHosts # <<>>
    /\ dq.retErr = <<"failed to prepare query statement",
                     "live query not possible if query has last timestamp">>
    /\ ~dq.resolved

\* number of parentheses open in front of token i
Depth(tokens, i) ==
    Cardinality({k \in 1..(i - 1) : tokens[k] = "("})
        - Cardinality({k \in 1..(i - 1) : tokens[k] = ")"})

DirAt(tokens) == {i \in 1..Len(tokens) : tokens[i] \in {"dir", "direction"}}

\* token i is the first "&" outside of parentheses
FirstTopLevelAnd(tokens, i) ==
    /\ i \in 1..Len(tokens)
    /\ tokens[i] = "&"
    /\ Depth(tokens, i) = 0
    /\ \A k \in 1..(i - 1) : ~(tokens[k] = "&" /\ Depth(tokens, k) = 0)

\* C25: in every condition built by accepting completion suggestions from
\* the empty condition the dir keyword (dir, direction) occurs at most once,
\* and only as the first token or right after the first top-level "&",
\* never inside parentheses, after "!" or after "|".
C25_DirKeywordPlacement ==
    /\ Cardinality(DirAt(condition)) <= 1
    /\ \A i \in DirAt(condition) :
           i = 1 \/ FirstTopLevelAnd(condition, i - 1)

\* the dir keyword has been accepted after the first top-level "&", which
\* follows a condition in parentheses, and has got its direction
C25_Witness ==
    /\ Len(condition) >= 1 /\ condition[1] = "("
    /\ \E i \in DirAt(condition) : i > 1 /\ condition[i - 1] = "&"
    /\ lastOf(condition) \in DirectionFilters

\* the positions of the operator op outside of parentheses
TopLevel(tokens, op) ==
    {i \in 1..Len(tokens) : tokens[i] = op /\ Depth(tokens, i) = 0}

\* C36: in every condition built by accepting completion suggestions, once
\* the dir keyword is present the condition contains no "|" outside of
\* parentheses and at most one "&" outside of parentheses.
C36_DirKeywordTopLevel ==
    DirAt(condition) # {} =>
        /\ TopLevel(condition, "|") = {}
        /\ Cardinality(TopLevel(condition, "&")) <= 1

\* the dir keyword leads a condition whose top-level "&" is followed by a
\* disjunction in parentheses
C36_Witness ==
    /\ DirAt(condition) = {1}
    /\ TopLevel(condition, "&") # {}
    /\ \E i \in 1..Len(condition) :
           condition[i] = "|" /\ Depth(condition, i) > 0

\* the goroutines of the pipeline have come to their end
PipelineDown ==
    /\ dq.workloadsClosed
    /\ \A w \in DOMAIN dq.workers : dq.workers[w].pc = "done"
    /\ dq.outClosed

\* C20: after the parent context is cancelled the pipeline shuts down: the
\* producer, all workers and the closer of the response channel terminate,
\* none stays blocked on a channel send.
C20_CancelShutsDown == dq.ctxDone ~> PipelineDown

\* without cancellation, all workloads being created, the pipeline shuts
\* down (diagnosis of C20)
C20_ShutsDownUncancelled ==
    (dq.pc = "running")
        ~> (\/ dq.ctxDone
            \/ dq.pc = "panicked"
            \/ (PipelineDown /\ dq.pc = "returned"))

\* Run has returned from a query that was not cancelled
Completed == dq.pc = "returned" /\ ~dq.ctxDone

\* C31: without cancellation, every per-host run terminating (and every
\* workload having been created), a distributed Run terminates for every
\* size of the host list, the empty one included, and every maxConcurrent,
\* having run each host's workload exactly once and folded each response
\* into the result exactly once.
C31_RunTerminates ==
    /\ [](\A h \in DOMAIN dq.runs : dq.runs[h] <= 1 /\ dq.folds[h] <= 1)
    /\ [](Completed =>
             \A h \in 1..dq.nHosts : dq.runs[h] = 1 /\ dq.folds[h] = 1)
    /\ (dq.pc = "running")
           ~> (dq.ctxDone \/ dq.pc = "panicked" \/ dq.pc = "returned")

\* Run has returned after fewer workers than hosts have run the workloads
\* of all MaxHosts hosts
C31_Witness ==
    /\ Completed
    /\ dq.nHosts = MaxHosts
    /\ dq.numRunners < dq.nHosts
    /\ \A h \in 1..dq.nHosts : dq.runs[h] = 1 /\ dq.folds[h] = 1

\* the response of host h as the worker sends it
ResponseOf(h) ==
    [host |-> h, result |-> dq.resp[h].result,
     err |-> IF dq.resp[h].err # NilErr
             THEN Wrap("failed to run query", dq.resp[h].err) ELSE NilErr]

\* the responses of the hosts h..n folded in the order of the host list
RECURSIVE FoldHosts(_, _, _)
FoldHosts(final, h, n) ==
    IF h > n THEN final ELSE FoldHosts(Fold(final, ResponseOf(h)), h + 1, n)

\* C32: the final result of a distributed query (rows, totals, hits,
\* interface set, hosts statuses, Summary.First, Summary.Last and Query) is
\* the same for every order in which the host responses reach the
\* aggregator: it is the result of folding them in the order of the host
\* list.
C32_OrderIndependent ==
    Completed => dq.final = FoldHosts(NewResult, 1, dq.nHosts)

\* the rows, totals, hits, interfaces and statuses do not depend on the
\* order of the responses (diagnosis of C32)
C32_DataOrderIndependent ==
    Completed =>
        LET inOrder == FoldHosts(NewResult, 1, dq.nHosts)
        IN  /\ dq.final.Rows = inOrder.Rows
            /\ dq.final.Totals = inOrder.Totals
            /\ dq.final.HitsTotal = inOrder.HitsTotal
            /\ dq.final.Interfaces = inOrder.Interfaces
            /\ dq.final.HostsStatuses = inOrder.HostsStatuses

\* C33: if CreateQueryWorkload fails for a host, that host is reported with
\* an error status in HostsStatuses, no query is run for it, and the
\* remaining hosts are still queried and aggregated.
C33_CreateFailureBecomesStatus ==
    /\ dq.pc # "panicked"
    /\ Completed =>
           /\ \A h \in dq.createFailed :
                  /\ h \in DOMAIN dq.final.HostsStatuses
                  /\ dq.final.HostsStatuses[h].Code = StatusError
                  /\ dq.runs[h] = 0
           /\ \A h \in (1..dq.nHosts) \ dq.createFailed :
                  dq.runs[h] = 1 /\ dq.folds[h] = 1

Occurrences(list, p) == Cardinality({k \in 1..Len(list) : list[k] = p})

RECURSIVE CountIn(_, _)
CountIn(maps, p) ==
    IF maps = <<>> THEN 0
    ELSE Occurrences(maps[1], p) + CountIn(Tail(maps), p)

\* the flow map of the interval a packet was observed in
IntervalMap(p) ==
    IF observed[p] < Len(handed) THEN handed[observed[p] + 1]
    ELSE capture.flowLog

\* C3: every observed packet is counted in exactly one interval's flow map:
\* the map handed over by the first rotate accepted after it, or the live
\* map if there was none; none is lost or counted twice.
C3_RotationAtomicity ==
    \A p \in DOMAIN observed :
        p # capture.pkt =>
            /\ CountIn(handed, p) + Occurrences(capture.flowLog, p) = 1
            /\ Occurrences(IntervalMap(p), p) = 1

C3_Witness ==
    /\ Len(handed) >= 2
    /\ Len(handed[1]) >= 1 /\ Len(handed[2]) >= 1
    /\ Len(capture.flowLog) >= 1

(***************************************************************************)
(* Properties of the meta table                                            *)
(***************************************************************************)
\* the payload at the recorded Offset of block t begins with the LZ4 magic
OwnMagic(t) ==
    LET block == g.header.Blocks[t]
    IN  /\ block.Offset < Len(dataFile.content)
        /\ dataFile.content[block.Offset + 1] = LZ4Magic

\* C40: PrintMetaTable on any block file produced by WriteBlock calls
\* (files that contain or end with empty blocks and blocks written in
\* non-increasing timestamp order included) completes without error and
\* marks a block as mismatching only if the block is LZ4-encoded and the
\* first four bytes of its own payload, at its recorded Offset, are not the
\* LZ4 frame magic.
C40_MetaTableChecksBlocks ==
    (ret.op = "PrintMetaTable" /\ hist.nfaults = 0) =>
        /\ ~ret.err
        /\ \A k \in 1..Len(ret.data) :
               /\ g.header.Blocks[ret.data[k]].EncoderType = EncoderTypeLZ4
               /\ ~OwnMagic(ret.data[k])

\* the table of a file without empty blocks is printed without error
\* (diagnosis of C40)
C40_PrintsFilesWithoutEmptyBlocks ==
    (/\ ret.op = "PrintMetaTable" /\ hist.nfaults = 0
     /\ \A t \in DOMAIN g.header.Blocks : g.header.Blocks[t].Len > 0)
        => ~ret.err

(***************************************************************************)
(* Properties of the memory pool                                           *)
(***************************************************************************)
\* the buffers the callers hold, and those of the MemFiles they have open
HeldBuffers == SumOver(Callers, [c \in Callers |-> Len(mp.held[c])])
OpenFiles == SumOver(Callers, [c \in Callers |-> Len(mp.files[c])])

\* C38: for a MemPool created with n buffers, under any interleaving of Get
\* and Put in which each obtained buffer is put back at most once, the
\* buffers in the pool and the buffers held by callers are n together, so
\* at most n are held at once and Get blocks while n are held.
C38_PoolConservesBuffers ==
    mp.live =>
        /\ Len(mp.elements) + HeldBuffers = mp.n
        /\ HeldBuffers <= mp.n
        /\ HeldBuffers = mp.n =>
               \A c \in Callers, size \in Sizes : ~ENABLED MPGet(c, size)

\* all buffers of a pool of MaxPool buffers are held, by more than one
\* caller, one of them having been replaced by a larger one
C38_Witness ==
    /\ mp.live /\ mp.n = MaxPool
    /\ HeldBuffers = MaxPool
    /\ \A c \in Callers : mp.held[c] # <<>>
    /\ \E c \in Callers : mp.held[c][1].cap > 0

\* C39: every buffer taken from the pool by NewMemFile is returned: after
\* any sequence of NewMemFile calls (successful, or failing with a Stat,
\* read or close error) and Close calls on the files obtained, the pool
\* again holds all n buffers.
C39_MemFileReturnsBuffers ==
    (mp.live /\ OpenFiles = 0) => Len(mp.elements) = mp.n

====
